---- MODULE Spec2Model ----
(***************************************************************************)
(* The FSL evaluator of funboy (src/src/fsl_interpreter.rs) as a state     *)
(* machine: an Interpreter (variable store, output accumulator, log) that  *)
(* is handed parsed code and evaluates it statement by statement.          *)
(*                                                                         *)
(* eval_command is recursive in the source and is a recursive operator     *)
(* here.  Text is kept run-length encoded (a sequence of <<char, count>>   *)
(* runs, adjacent runs never sharing a character), which is an exact       *)
(* representation of a string and lets texts of several megabytes, needed  *)
(* to reach VAR_MAP_BYTE_LIMIT, be values of the model.  Floats are exact  *)
(* rationals <<n, d>> (d > 0, lowest terms) with <<1, 0>>, <<-1, 0>> and   *)
(* <<0, 0>> for inf, -inf and NaN; f64 rounding and the sign of zero are   *)
(* not modelled.  Integers are unbounded (no i64 wrap-around).             *)
(***************************************************************************)
EXTENDS Integers, Sequences, FiniteSets

\* ---------------------------------------------------------------------
\* Program constants
\* ---------------------------------------------------------------------
U16_MAX == 65535
LOOP_LIMIT == U16_MAX
VAR_MAP_BYTE_LIMIT == 65535 * 100
DISCORD_CHARACTER_LIMIT == 2000
MESSAGE_BYTE_LIMIT == DISCORD_CHARACTER_LIMIT * 4
OUTPUT_BYTE_LIMIT == MESSAGE_BYTE_LIMIT
\* size_of::<ValueType>() on a 64-bit target: the Command variant is a
\* Vec (24 bytes) plus the one-byte CommandType, whose niche holds the tag.
SIZE_OF_VALUE_TYPE == 32
\* RawVec::<u8>::MIN_NON_ZERO_CAP, the smallest capacity a growing String gets
MIN_NON_ZERO_CAP == 8

ERROR_NO_ARGS == "takes no arguments"
ERROR_TWO_OR_MORE_ARGS == "must have two or more arguments"
ERROR_EXACTLY_ONE_ARG == "must have exactly one argument"
ERROR_EXACTLY_TWO_ARGS == "must have exactly two arguments"
ERROR_EXACTLY_THREE_ARGS == "must have exactly three arguments"
ERROR_ARGS_MUST_BE_NUMBER == "all arguments must be of type Number"
ERROR_ARGS_MUST_BE_BOOL == "all arguments must be of type Bool"
ERROR_ARG_MUST_BE_IDENTIFIER == "argument must be of type Identifier"
ERROR_ARG_ONE_MUST_BE_WHOLE_NUMBER == "first argument must be a whole number"
ERROR_ARG_ONE_MUST_BE_BOOL == "first argument must be of type Bool"
ERROR_ARG_ONE_MUST_BE_COMMAND_BOOL == "first argument must be a command that evaluates to a boolean value"
ERROR_ARGS_AFTER_ARG_ONE_MUST_BE_COMMAND == "arguments following first argument must be of type Command"
ERROR_ARG_ONE_MUST_NOT_BE_IDENTIFIER == "first argument must not be of type Identifier"
ERROR_ARG_ONE_MUST_NOT_BE_NONE == "first argument must not be of type None"
ERROR_ARG_TWO_MUST_BE_IDENTIFIER == "second argument must be of type Identifier"
ERROR_UNKNOWN_IDENTIFIER == "no identifier exists named"
ERROR_ZERO_DIVISION == "division by zero"
ERROR_REPEAT_LIMIT == "must not exceed more than 65535 repetitions"
ERROR_LOOP_LIMIT == "Loop limit exceeded"
ERROR_MEMORY_LIMIT == "interpreter memory limit of 6553500 bytes exceeded"
ERROR_OUTPUT_LIMIT == "Output byte limit of 8000 bytes exceeded"

\* ---------------------------------------------------------------------
\* Small helpers
\* ---------------------------------------------------------------------
Max(a, b) == IF a >= b THEN a ELSE b
Min(a, b) == IF a <= b THEN a ELSE b
Abs(a) == IF a < 0 THEN -a ELSE a
Sign(a) == IF a < 0 THEN -1 ELSE IF a > 0 THEN 1 ELSE 0

RECURSIVE Gcd(_, _)
Gcd(a, b) == IF b = 0 THEN a ELSE Gcd(b, a % b)

\* i64 `/` and `%`: quotient truncated toward zero, remainder with the
\* sign of the dividend (b /= 0)
TruncDiv(a, b) == Sign(a) * Sign(b) * (Abs(a) \div Abs(b))
TruncRem(a, b) == a - b * TruncDiv(a, b)

\* ---------------------------------------------------------------------
\* Text: String as a run-length encoded character sequence
\* ---------------------------------------------------------------------
EmptyText == << >>

\* String::push_str
TextCat(a, b) ==
    IF a = << >> THEN b
    ELSE IF b = << >> THEN a
    ELSE IF a[Len(a)][1] = b[1][1]
         THEN SubSeq(a, 1, Len(a) - 1)
              \o << <<b[1][1], a[Len(a)][2] + b[1][2]>> >>
              \o Tail(b)
         ELSE a \o b

RECURSIVE TextLen(_)
\* String::len (bytes; the model's characters are ASCII)
TextLen(a) == IF a = << >> THEN 0 ELSE a[1][2] + TextLen(Tail(a))

RECURSIVE TextTake(_, _)
\* &s[0..n]
TextTake(t, n) ==
    IF n <= 0 \/ t = << >> THEN EmptyText
    ELSE IF t[1][2] <= n THEN <<t[1]>> \o TextTake(Tail(t), n - t[1][2])
    ELSE << <<t[1][1], n>> >>

RECURSIVE TextDrop(_, _)
\* &s[n..]
TextDrop(t, n) ==
    IF t = << >> THEN EmptyText
    ELSE IF n <= 0 THEN t
    ELSE IF t[1][2] <= n THEN TextDrop(Tail(t), n - t[1][2])
    ELSE << <<t[1][1], t[1][2] - n>> >> \o Tail(t)

RECURSIVE Str(_)
\* a string literal, written as a sequence of one-character strings
Str(chars) ==
    IF chars = << >> THEN EmptyText
    ELSE TextCat(<< <<chars[1], 1>> >>, Str(Tail(chars)))

\* the characters of a string literal
S(str) == [i \in 1..Len(str) |-> SubSeq(str, i, i)]

RECURSIVE Name(_)
\* the string of a character sequence
Name(chars) == IF chars = << >> THEN "" ELSE Head(chars) \o Name(Tail(chars))

DigitChar(d) == <<"0", "1", "2", "3", "4", "5", "6", "7", "8", "9">>[d + 1]

RECURSIVE NatToText(_)
NatToText(n) ==
    IF n < 10 THEN Str(<<DigitChar(n)>>)
    ELSE TextCat(NatToText(n \div 10), Str(<<DigitChar(n % 10)>>))

\* i64::to_string
IntToText(n) == IF n < 0 THEN TextCat(Str(<<"-">>), NatToText(-n)) ELSE NatToText(n)

\* ---------------------------------------------------------------------
\* f64 as an exact rational
\* ---------------------------------------------------------------------
NaN == <<0, 0>>
Inf(s) == <<s, 0>>
IsNaN(f) == f[1] = 0 /\ f[2] = 0
IsInf(f) == f[1] # 0 /\ f[2] = 0
IsZero(f) == f[1] = 0 /\ f[2] # 0

Rat(n, d) ==
    LET g == Gcd(Abs(n), Abs(d))
        s == IF d < 0 THEN -1 ELSE 1
    IN  <<(s * n) \div g, (s * d) \div g>>

\* `as f64`
IntToFloat(n) == <<n, 1>>

FAdd(a, b) ==
    IF IsNaN(a) \/ IsNaN(b) THEN NaN
    ELSE IF IsInf(a) THEN (IF IsInf(b) /\ a[1] # b[1] THEN NaN ELSE a)
    ELSE IF IsInf(b) THEN b
    ELSE Rat(a[1] * b[2] + b[1] * a[2], a[2] * b[2])

FNeg(a) == <<-a[1], a[2]>>
FSub(a, b) == FAdd(a, FNeg(b))

FMul(a, b) ==
    IF IsNaN(a) \/ IsNaN(b) THEN NaN
    ELSE IF IsInf(a) \/ IsInf(b)
         THEN (IF IsZero(a) \/ IsZero(b) THEN NaN ELSE Inf(Sign(a[1]) * Sign(b[1])))
    ELSE Rat(a[1] * b[1], a[2] * b[2])

\* f64 `/`: a zero divisor gives an infinity (NaN for 0/0), never an error
FDiv(a, b) ==
    IF IsNaN(a) \/ IsNaN(b) THEN NaN
    ELSE IF IsInf(a) THEN (IF IsInf(b) THEN NaN
                           ELSE Inf(a[1] * (IF b[1] < 0 THEN -1 ELSE 1)))
    ELSE IF IsInf(b) THEN <<0, 1>>
    ELSE IF IsZero(b) THEN (IF IsZero(a) THEN NaN ELSE Inf(Sign(a[1])))
    ELSE Rat(a[1] * b[2], a[2] * b[1])

\* f64 `%` (fmod): NaN for a zero divisor or an infinite dividend
FRem(a, b) ==
    IF IsNaN(a) \/ IsNaN(b) \/ IsInf(a) \/ IsZero(b) THEN NaN
    ELSE IF IsInf(b) THEN a
    ELSE LET q == TruncDiv(a[1] * b[2], a[2] * b[1])
         IN  FSub(a, FMul(<<q, 1>>, b))

FLess(a, b) ==
    IF IsNaN(a) \/ IsNaN(b) THEN FALSE
    ELSE IF IsInf(a) THEN a[1] < 0 /\ ~(IsInf(b) /\ b[1] < 0)
    ELSE IF IsInf(b) THEN b[1] > 0
    ELSE a[1] * b[2] < b[1] * a[2]

\* digits of the fraction r/d (0 <= r < d), at most k of them
MaxFracDigits == 17
RECURSIVE FracDigits(_, _, _)
FracDigits(r, d, k) ==
    IF r = 0 \/ k = 0 THEN EmptyText
    ELSE TextCat(Str(<<DigitChar((r * 10) \div d)>>), FracDigits((r * 10) % d, d, k - 1))

\* f64::to_string: "2" for 2.0, "0.5", "inf", "-inf", "NaN"
FloatToText(f) ==
    IF IsNaN(f) THEN Str(<<"N", "a", "N">>)
    ELSE IF IsInf(f)
         THEN (IF f[1] < 0 THEN Str(<<"-", "i", "n", "f">>) ELSE Str(<<"i", "n", "f">>))
    ELSE LET n == Abs(f[1])
             whole == NatToText(n \div f[2])
             frac == FracDigits(n % f[2], f[2], MaxFracDigits)
             body == IF frac = EmptyText THEN whole
                     ELSE TextCat(TextCat(whole, Str(<<".">>)), frac)
         IN  IF f[1] < 0 THEN TextCat(Str(<<"-">>), body) ELSE body

\* ---------------------------------------------------------------------
\* ValueType and Command (parser.rs)
\* ---------------------------------------------------------------------
TextV(t) == [k |-> "Text", v |-> t]
IntV(n) == [k |-> "Int", v |-> n]
FloatV(f) == [k |-> "Float", v |-> f]
BoolV(b) == [k |-> "Bool", v |-> b]
ListV(values) == [k |-> "List", v |-> values]
IdentifierV(name) == [k |-> "Identifier", v |-> name]
CommandV(command) == [k |-> "Command", v |-> command]
NoneV == [k |-> "None", v |-> 0]

Command(command_type, args) == [command_type |-> command_type, args |-> args]
NoCommand == Command("", << >>)

\* CommandType::to_str
to_str(command_type) ==
    CASE command_type = "Add" -> "add"
      [] command_type = "Subtract" -> "sub"
      [] command_type = "Multiply" -> "mul"
      [] command_type = "Divide" -> "div"
      [] command_type = "Mod" -> "mod"
      [] command_type = "SelectRandom" -> "select_random"
      [] command_type = "Repeat" -> "repeat"
      [] command_type = "While" -> "while"
      [] command_type = "Copy" -> "copy"
      [] command_type = "Paste" -> "paste"
      [] command_type = "Print" -> "print"
      [] command_type = "Concatenate" -> "concat"
      [] command_type = "IfThen" -> "if_then"
      [] command_type = "IfThenElse" -> "if_then_else"
      [] command_type = "Not" -> "not"
      [] command_type = "And" -> "and"
      [] command_type = "Or" -> "or"
      [] command_type = "Eq" -> "eq"
      [] command_type = "Gt" -> "gt"
      [] command_type = "Lt" -> "lt"
      [] command_type = "NewLine" -> "nl"
      [] command_type = "GetSub" -> "get_sub"
      [] command_type = "RandomRange" -> "random_range"
      [] command_type = "Capitalize" -> "capitalize"
      [] command_type = "Upper" -> "upper"
      [] command_type = "Lower" -> "lower"
      [] command_type = "RemoveWhitespace" -> "remove_whitespace"
      [] command_type = "StartsWith" -> "starts_with"
      [] command_type = "EndsWith" -> "ends_with"
      [] command_type = "Index" -> "index"
      [] command_type = "Slice" -> "slice"
      [] command_type = "Length" -> "length"
      [] command_type = "Swap" -> "swap"
      [] command_type = "Insert" -> "insert"
      [] command_type = "Remove" -> "remove"
      [] command_type = "Replace" -> "replace"

\* the command names, as texts, for ValueType::Command's to_string
CommandNameText(command_type) ==
    CASE command_type = "Add" -> Str(<<"a", "d", "d">>)
      [] command_type = "Print" -> Str(<<"p", "r", "i", "n", "t">>)
      [] command_type = "Paste" -> Str(<<"p", "a", "s", "t", "e">>)
      [] OTHER -> Str(<<"c", "m", "d">>)

\* an identifier's name as text
NameText(name) == Str(S(name))

\* ValueType::extract_float
extract_float(value) ==
    CASE value.k = "Int" -> [some |-> TRUE, f |-> IntToFloat(value.v)]
      [] value.k = "Float" -> [some |-> TRUE, f |-> value.v]
      [] OTHER -> [some |-> FALSE, f |-> NaN]

\* ValueType::extract_int
extract_int(value) ==
    CASE value.k = "Int" -> [some |-> TRUE, i |-> value.v]
      [] OTHER -> [some |-> FALSE, i |-> 0]

RECURSIVE get_size(_)
RECURSIVE SumSizes(_)
\* the sum of get_size over a Vec<ValueType>
SumSizes(values) ==
    IF values = << >> THEN 0 ELSE get_size(values[1]) + SumSizes(Tail(values))

\* ValueType::get_size.  A String's capacity is its length here: every
\* value that reaches insert_var is a clone (args[0].clone(), arg.clone()),
\* and String::clone allocates exactly len bytes.
get_size(value) ==
    CASE value.k = "Text" -> SIZE_OF_VALUE_TYPE + TextLen(value.v)
      [] value.k = "Int" -> SIZE_OF_VALUE_TYPE
      [] value.k = "Float" -> SIZE_OF_VALUE_TYPE
      [] value.k = "Bool" -> SIZE_OF_VALUE_TYPE
      [] value.k = "List" -> SIZE_OF_VALUE_TYPE + SumSizes(value.v)
      [] value.k = "Identifier" -> SIZE_OF_VALUE_TYPE + TextLen(NameText(value.v))
      [] value.k = "Command" -> SIZE_OF_VALUE_TYPE + SumSizes(value.v.args)
      [] value.k = "None" -> SIZE_OF_VALUE_TYPE

RECURSIVE to_string_panics(_)
\* impl ToString for ValueType, the List arm's slice
\* &list_string[0..list_string.len() - 2]: with no element the subtraction
\* underflows and the call panics
to_string_panics(value) ==
    /\ value.k = "List"
    /\ \/ Len(value.v) = 0
       \/ \E i \in 1..Len(value.v) : to_string_panics(value.v[i])

RECURSIVE to_string(_)
RECURSIVE JoinList(_)
\* values.iter().map(|value| value.to_string() + ", ").collect()
JoinList(values) ==
    IF values = << >> THEN EmptyText
    ELSE TextCat(TextCat(to_string(values[1]), Str(<<",", " ">>)), JoinList(Tail(values)))

\* impl ToString for ValueType (where it does not panic)
to_string(value) ==
    CASE value.k = "Text" -> value.v
      [] value.k = "Int" -> IntToText(value.v)
      [] value.k = "Float" -> FloatToText(value.v)
      [] value.k = "Bool" ->
            IF value.v THEN Str(<<"t", "r", "u", "e">>) ELSE Str(<<"f", "a", "l", "s", "e">>)
      [] value.k = "List" ->
            LET list_string == JoinList(value.v)
            IN  TextCat(TextCat(Str(<<"[">>),
                                TextTake(list_string, TextLen(list_string) - 2)),
                        Str(<<"]">>))
      [] value.k = "Identifier" -> NameText(value.v)
      [] value.k = "Command" -> CommandNameText(value.v.command_type)
      [] value.k = "None" -> EmptyText

\* ---------------------------------------------------------------------
\* VarMap (fsl_interpreter.rs)
\* ---------------------------------------------------------------------
\* usize::saturating_add; the model's sums stay far below usize::MAX
saturating_add(a, b) == a + b

\* VarMap::new
VarMapNew == [data |-> [n \in {} |-> NoneV], size |-> 0]

\* insert_var with the entry written before the ceiling is tested
insert_var_before_test(vm, name, value) ==
    [ok |-> saturating_add(vm.size, get_size(value)) <= VAR_MAP_BYTE_LIMIT,
     vm |-> [vm EXCEPT !.data = [n \in (DOMAIN vm.data) \cup {name} |->
                                     IF n = name THEN value ELSE vm.data[n]]]]

\* VarMap::insert_var: [ok, vm]; `size` is read and never written
insert_var(vm, name, value) ==
    IF saturating_add(vm.size, get_size(value)) <= VAR_MAP_BYTE_LIMIT
    THEN [ok |-> TRUE,
          vm |-> [vm EXCEPT !.data = [n \in (DOMAIN vm.data) \cup {name} |->
                                          IF n = name THEN value ELSE vm.data[n]]]]
    ELSE [ok |-> FALSE, vm |-> vm]

\* VarMap::get_var
get_var(vm, name) ==
    IF name \in DOMAIN vm.data
    THEN [some |-> TRUE, value |-> vm.data[name]]
    ELSE [some |-> FALSE, value |-> NoneV]

\* ---------------------------------------------------------------------
\* Result<ValueType, String> of eval_command, with the interpreter state
\* the call leaves behind.  kind "panic" is a Rust panic (the call unwinds).
\* ---------------------------------------------------------------------
Ok(value, st) == [kind |-> "ok", val |-> value, cmd |-> "", desc |-> "", st |-> st]
Err(desc, st) == [kind |-> "err", val |-> NoneV, cmd |-> "", desc |-> desc, st |-> st]
Panic(st) == [kind |-> "panic", val |-> NoneV, cmd |-> "", desc |-> "", st |-> st]

\* CommandType::gen_err: "Semantic\nCommand: {}\nDescription: {}"
gen_err(command_type, description, st) ==
    [kind |-> "err", val |-> NoneV, cmd |-> to_str(command_type), desc |-> description, st |-> st]

\* ---------------------------------------------------------------------
\* String capacities (Print compares capacities, not lengths)
\* ---------------------------------------------------------------------
RECURSIVE GrowAmortized(_, _)
\* RawVec::grow_amortized applied until `need` bytes fit
GrowAmortized(cap, need) ==
    IF cap >= need THEN cap
    ELSE GrowAmortized(Max(cap * 2, MIN_NON_ZERO_CAP), need)

\* capacity of self.output after push_str of `additional` bytes.  The growth
\* policy is not part of String's contract: "exact" reserves what is needed,
\* "amortized" is what RawVec does (max of twice the capacity and the need).
push_str_capacity(cap, len, additional, pol) ==
    IF len + additional <= cap THEN cap
    ELSE IF pol = "exact" THEN len + additional
    ELSE Max(Max(cap * 2, len + additional), MIN_NON_ZERO_CAP)

\* capacity of arg.to_string(): a copy of existing text is allocated exactly,
\* a formatted number, bool or list grows as it is written
to_string_capacity(value, len, pol) ==
    IF value.k \in {"Text", "Identifier", "Command", "None"} \/ pol = "exact" THEN len
    ELSE GrowAmortized(0, len)

\* ---------------------------------------------------------------------
\* Arithmetic arms of eval_command (Add, Subtract, Multiply, Divide, Mod)
\* ---------------------------------------------------------------------
FloatOp(command_type, sum, value) ==
    CASE command_type = "Add" -> FAdd(sum, value)
      [] command_type = "Subtract" -> FSub(sum, value)
      [] command_type = "Multiply" -> FMul(sum, value)
      [] command_type = "Divide" -> FDiv(sum, value)
      [] command_type = "Mod" -> FRem(sum, value)

IntOp(command_type, sum, value) ==
    CASE command_type = "Add" -> sum + value
      [] command_type = "Subtract" -> sum - value
      [] command_type = "Multiply" -> sum * value
      [] command_type = "Divide" -> TruncDiv(sum, value)
      [] command_type = "Mod" -> TruncRem(sum, value)

RECURSIVE fold_float(_, _, _, _, _)
\* for arg in &args[1..args.len()] { match arg.extract_float() ... }
fold_float(command_type, sum, args, i, st) ==
    IF i > Len(args) THEN Ok(FloatV(sum), st)
    ELSE LET value == extract_float(args[i])
         IN  IF value.some
             THEN fold_float(command_type, FloatOp(command_type, sum, value.f), args, i + 1, st)
             ELSE gen_err(command_type, ERROR_ARGS_MUST_BE_NUMBER, st)

\* Divide and Mod test the divisor, the other three do not
ChecksZero(command_type) == command_type \in {"Divide", "Mod"}

RECURSIVE fold_int(_, _, _, _, _)
\* for arg in &args[1..args.len()] { match arg.extract_int() ... }
fold_int(command_type, sum, args, i, st) ==
    IF i > Len(args) THEN Ok(IntV(sum), st)
    ELSE LET value == extract_int(args[i])
         IN  IF value.some
             THEN IF ChecksZero(command_type) /\ value.i = 0
                  THEN gen_err(command_type, ERROR_ZERO_DIVISION, st)
                  ELSE fold_int(command_type, IntOp(command_type, sum, value.i), args, i + 1, st)
             ELSE gen_err(command_type, ERROR_ARGS_MUST_BE_NUMBER, st)

Arithmetic(command_type, args, has_float_arg, st) ==
    IF Len(args) < 2 THEN gen_err(command_type, ERROR_TWO_OR_MORE_ARGS, st)
    ELSE IF has_float_arg
    THEN LET first == extract_float(args[1])
         IN  IF first.some THEN fold_float(command_type, first.f, args, 2, st)
             ELSE gen_err(command_type, ERROR_ARGS_MUST_BE_NUMBER, st)
    ELSE LET first == extract_int(args[1])
         IN  IF first.some THEN fold_int(command_type, first.i, args, 2, st)
             ELSE gen_err(command_type, ERROR_ARGS_MUST_BE_NUMBER, st)

\* ---------------------------------------------------------------------
\* &str of the request text: a sequence of one-character strings
\* ---------------------------------------------------------------------
\* char::is_whitespace, for the characters of the model
Whitespace == {" ", "\n"}

LowerLetters ==
    <<"a", "b", "c", "d", "e", "f", "g", "h", "i", "j", "k", "l", "m",
      "n", "o", "p", "q", "r", "s", "t", "u", "v", "w", "x", "y", "z">>
UpperLetters ==
    <<"A", "B", "C", "D", "E", "F", "G", "H", "I", "J", "K", "L", "M",
      "N", "O", "P", "Q", "R", "S", "T", "U", "V", "W", "X", "Y", "Z">>
Digits == {"0", "1", "2", "3", "4", "5", "6", "7", "8", "9"}

Range(s) == {s[i] : i \in DOMAIN s}

\* char::is_alphanumeric
Alphanumeric == Range(LowerLetters) \cup Range(UpperLetters) \cup Digits

\* the index of the first character of s that is in / is not in the set,
\* 0 when there is none
FindIn(s, set) ==
    IF \E i \in DOMAIN s : s[i] \in set
    THEN CHOOSE i \in DOMAIN s : s[i] \in set /\ \A j \in 1..(i - 1) : s[j] \notin set
    ELSE 0
FindNotIn(s, set) ==
    IF \E i \in DOMAIN s : s[i] \notin set
    THEN CHOOSE i \in DOMAIN s : s[i] \notin set /\ \A j \in 1..(i - 1) : s[j] \in set
    ELSE 0

RECURSIVE SplitWords(_, _, _)
SplitWords(text, word, words) ==
    IF text = << >> THEN (IF word = << >> THEN words ELSE Append(words, word))
    ELSE IF Head(text) \in Whitespace
         THEN SplitWords(Tail(text), << >>, IF word = << >> THEN words ELSE Append(words, word))
         ELSE SplitWords(Tail(text), Append(word, Head(text)), words)

\* str::split_whitespace
split_whitespace(text) == SplitWords(text, << >>, << >>)

\* String::pop
pop(s) == IF s = << >> THEN s ELSE SubSeq(s, 1, Len(s) - 1)

\* the RLE text of a character sequence and back
Chars(t) ==
    [i \in 1..TextLen(t) |->
        t[CHOOSE k \in DOMAIN t :
              TextLen(SubSeq(t, 1, k - 1)) < i /\ i <= TextLen(SubSeq(t, 1, k))][1]]

\* ---------------------------------------------------------------------
\* The substitution source (storage/template_database.rs): the templates
\* table as a function from the stored names to their substitutes
\* ---------------------------------------------------------------------
\* a table from its <<template, substitutes>> pairs
Table(pairs) == [t \in {p[1] : p \in pairs} |-> (CHOOSE p \in pairs : p[1] = t)[2]]
EmptyDb == Table({})

\* COLLATE NOCASE folds the ASCII upper case letters
NoCase(name) ==
    [i \in DOMAIN name |->
        IF name[i] \in Range(UpperLetters)
        THEN LowerLetters[CHOOSE k \in DOMAIN UpperLetters : UpperLetters[k] = name[i]]
        ELSE name[i]]

\* SELECT id FROM templates WHERE name = ?1
find_template_id(fdb, template) ==
    {t \in DOMAIN fdb : NoCase(t) = NoCase(template)}

\* the closure handed to interp: Some(sub) for Ok(sub), None for Err(_);
\* ORDER BY RANDOM() LIMIT 1 takes the row the seed draws (seed is what
\* is left of it for later draws), and a template without rows gives Ok("")
get_random_subs(fdb, template, seed) ==
    LET ids == find_template_id(fdb, template)
    IN  IF ids = {} THEN [some |-> FALSE, sub |-> << >>, seed |-> seed]
        ELSE LET rows == fdb[CHOOSE t \in ids : TRUE]
             IN  IF rows = << >> THEN [some |-> TRUE, sub |-> << >>, seed |-> seed]
                 ELSE [some |-> TRUE, sub |-> rows[(seed % Len(rows)) + 1],
                       seed |-> seed \div Len(rows)]

\* ---------------------------------------------------------------------
\* TextInterpolator (text_interpolator.rs, text_interpolator/defaults.rs)
\* ---------------------------------------------------------------------
TEMPLATE_APOSTROPHE == "'"
TEMPLATE_CARROT == "^"
\* the grave accent, written by name: a TLA+ string cannot hold it
TEMPLATE_BACK_TICK == "BACK_TICK"
TEMPLATE_HEADERS == {TEMPLATE_APOSTROPHE, TEMPLATE_CARROT, TEMPLATE_BACK_TICK}

TemplateSplit(prefix, template, suffix) ==
    [prefix |-> prefix, template |-> template, suffix |-> suffix]

\* defaults::extract_template
extract_template(embedded_template) ==
    LET h == FindIn(embedded_template, TEMPLATE_HEADERS)
        \* split.1
        rest == SubSeq(embedded_template, h + 1, Len(embedded_template))
        e == FindNotIn(rest, Alphanumeric)
    IN  IF h = 0 THEN TemplateSplit(<< >>, << >>, << >>)
        ELSE IF e = 0 THEN TemplateSplit(SubSeq(embedded_template, 1, h - 1), rest, << >>)
        ELSE TemplateSplit(SubSeq(embedded_template, 1, h - 1), SubSeq(rest, 1, e - 1),
                           IF rest[e] \in TEMPLATE_HEADERS
                           THEN SubSeq(rest, e + 1, Len(rest))
                           ELSE SubSeq(rest, e, Len(rest)))

\* contains_template that finds no marker
contains_template_never(text) == FALSE

\* TextInterpolator::contains_template
contains_template(text) == FindIn(text, TEMPLATE_HEADERS) # 0

\* HashSet::insert as interp uses it: [inserted, set]
template_set_insert_always(template_set, template) ==
    [inserted |-> TRUE, set |-> template_set \cup {template}]
template_set_insert(template_set, template) ==
    [inserted |-> template \notin template_set, set |-> template_set \cup {template}]

\* HashSet::remove
template_set_remove_nothing(template_set, template) == template_set
template_set_remove(template_set, template) == template_set \ {template}

\* nested interp calls the model follows before it gives the call up as
\* a stack overflow
MaxDepth == 6

\* the interpolator and what a call has done so far:
\*   template_set  TextInterpolator.template_set
\*   seed          the draws the random lookups of the call will take
\*   deepest       the deepest nesting of interp calls reached
\*   cycle         a name with a substitute was asked for while it was
\*                 being resolved by an enclosing interp call
\*   again         a name was asked for after an earlier request of it in
\*                 the same call had finished resolving
\*   resolved      the names that have finished resolving
\*   lookups       the calls of map (get_random_subs) made
NewInterpolation(template_set, seed) ==
    [template_set |-> template_set, seed |-> seed, deepest |-> 0,
     cycle |-> FALSE, again |-> FALSE, resolved |-> {}, lookups |-> 0]

RECURSIVE interp(_, _, _, _)
RECURSIVE interp_items(_, _, _, _, _)
\* `for item in text.split_whitespace() { .. } output.pop(); Ok(output)`;
\* chain is the names the enclosing interp calls are resolving
interp_items(items, output, fdb, chain, s) ==
    IF items = << >> THEN [kind |-> "ok", val |-> pop(output), s |-> s]
    ELSE
    LET item == Head(items)
        template_split == extract_template(item)
        name == template_split.template
        found == get_random_subs(fdb, name, s.seed)
        ins == template_set_insert(s.template_set, name)
        looked == [s EXCEPT !.lookups = @ + 1]
        asked == [looked EXCEPT !.seed = found.seed,
                           !.cycle = @ \/ name \in Range(chain),
                           !.again = @ \/ name \in s.resolved]
        held == [asked EXCEPT !.template_set = ins.set]
        substitution ==
            IF contains_template(found.sub)
            THEN interp(found.sub, fdb, Append(chain, name), held)
            ELSE [kind |-> "ok", val |-> found.sub, s |-> held]
    IN  IF ~found.some
        THEN interp_items(Tail(items), output \o item \o <<" ">>, fdb, chain, looked)
        ELSE IF ~ins.inserted
        THEN [kind |-> "err", val |-> << >>, s |-> [asked EXCEPT !.template_set = {}]]
        ELSE IF substitution.kind # "ok" THEN substitution
        ELSE interp_items(Tail(items),
                          output \o template_split.prefix \o substitution.val
                                 \o template_split.suffix \o <<" ">>,
                          fdb, chain,
                          [substitution.s EXCEPT
                              !.template_set = template_set_remove(@, name),
                              !.resolved = @ \cup {name}])

\* TextInterpolator::interp
interp(text, fdb, chain, s) ==
    IF Len(chain) > MaxDepth THEN [kind |-> "overflow", val |-> << >>, s |-> s]
    ELSE interp_items(split_whitespace(text), << >>, fdb, chain,
                      [s EXCEPT !.deepest = Max(@, Len(chain))])

\* ---------------------------------------------------------------------
\* Tokenizer (fsl_interpreter/lexer.rs)
\* ---------------------------------------------------------------------
COMMA == ","
OPENING_PARENTHESIS == "("
CLOSING_PARENTHESIS == ")"
QUOTE == "\""
ESCAPE == "\\"
KEYWORD_TRUE == S("true")
KEYWORD_FALSE == S("false")

SYMBOLS == {COMMA, OPENING_PARENTHESIS, CLOSING_PARENTHESIS, QUOTE}

Token(token_type, value) == [token_type |-> token_type, value |-> value]

\* str::trim
trim(s) ==
    LET first == FindNotIn(s, Whitespace)
        last == IF first = 0 THEN 0
                ELSE CHOOSE i \in DOMAIN s :
                         s[i] \notin Whitespace /\ \A j \in (i + 1)..Len(s) : s[j] \in Whitespace
    IN  IF first = 0 THEN << >> ELSE SubSeq(s, first, last)

\* the digits of a decimal literal: [sign, whole, fraction], or no literal
Unsigned(s) == IF s # << >> /\ s[1] \in {"-", "+"} THEN Tail(s) ELSE s
DecimalPoint(s) == FindIn(s, {"."})
WholeDigits(s) ==
    IF DecimalPoint(Unsigned(s)) = 0 THEN Unsigned(s)
    ELSE SubSeq(Unsigned(s), 1, DecimalPoint(Unsigned(s)) - 1)
FractionDigits(s) ==
    IF DecimalPoint(Unsigned(s)) = 0 THEN << >>
    ELSE SubSeq(Unsigned(s), DecimalPoint(Unsigned(s)) + 1, Len(Unsigned(s)))

\* str::parse::<i64>().is_ok(), the range of i64 aside
IsIntLiteral(s) ==
    /\ Unsigned(s) # << >>
    /\ \A i \in DOMAIN Unsigned(s) : Unsigned(s)[i] \in Digits

\* str::parse::<f64>().is_ok(), for literals without an exponent
IsFloatLiteral(s) ==
    \/ NoCase(Unsigned(s)) \in {S("inf"), S("infinity"), S("nan")}
    \/ /\ WholeDigits(s) \o FractionDigits(s) # << >>
       /\ \A i \in DOMAIN WholeDigits(s) : WholeDigits(s)[i] \in Digits
       /\ \A i \in DOMAIN FractionDigits(s) : FractionDigits(s)[i] \in Digits

\* number if it parses as a 64-bit float, keyword if it is one of the two
\* literals, else identifier
classify(left) ==
    IF IsFloatLiteral(trim(left)) THEN "Number"
    ELSE IF trim(left) \in {KEYWORD_TRUE, KEYWORD_FALSE} THEN "Keyword"
    ELSE "Identifier"

\* the buffer holds an escaped quote
HasEscapedQuote(buffer) ==
    \E i \in 1..(Len(buffer) - 1) : buffer[i] = ESCAPE /\ buffer[i + 1] = QUOTE

\* the state of the scan: tokens emitted, buffer, whether the scan is in
\* a quoted region, and the text accumulated by escaped quotes
NewTokenizer ==
    [tokens |-> << >>, buffer |-> << >>, inside_quote |-> FALSE, incomplete_string |-> << >>]

\* one character of tokenize
tokenize_char(t, c) ==
    LET buffer == Append(t.buffer, c)
        left == pop(buffer)
        value == Token(classify(left), trim(left))
        \* split at the first escape character
        e == FindIn(buffer, {ESCAPE})
    IN  IF t.inside_quote
        THEN IF HasEscapedQuote(buffer)
             THEN [t EXCEPT !.buffer = << >>,
                            !.incomplete_string =
                                @ \o SubSeq(buffer, 1, e - 1) \o SubSeq(buffer, e + 1, Len(buffer))]
             ELSE IF c = QUOTE
             THEN [t EXCEPT !.buffer = << >>, !.inside_quote = FALSE, !.incomplete_string = << >>,
                            !.tokens = @ \o <<Token("Text", t.incomplete_string \o left),
                                               Token("ClosingQuote", <<QUOTE>>)>>]
             ELSE [t EXCEPT !.buffer = buffer]
        ELSE IF c = QUOTE
             THEN [t EXCEPT !.buffer = << >>, !.inside_quote = TRUE,
                            !.tokens = Append(@, Token("OpeningQuote", <<QUOTE>>))]
        ELSE IF c = OPENING_PARENTHESIS
             THEN [t EXCEPT !.buffer = << >>,
                            !.tokens = @ \o <<Token("Command", trim(left)),
                                               Token("OpeningParenthesis", <<c>>)>>]
        ELSE IF c = CLOSING_PARENTHESIS
             THEN [t EXCEPT !.buffer = << >>,
                            !.tokens = @ \o (IF left = << >> THEN << >> ELSE <<value>>)
                                         \o <<Token("ClosingParenthesis", <<c>>)>>]
        ELSE IF c = COMMA
             THEN [t EXCEPT !.buffer = << >>,
                            !.tokens = @ \o (IF left = << >> THEN << >> ELSE <<value>>)
                                         \o <<Token("Comma", <<c>>)>>]
        ELSE [t EXCEPT !.buffer = buffer]

RECURSIVE tokenize_chars(_, _)
tokenize_chars(t, code) ==
    IF code = << >> THEN t ELSE tokenize_chars(tokenize_char(t, Head(code)), Tail(code))

\* tokenize(source) -> ordered sequence of Token
tokenize(code) == tokenize_chars(NewTokenizer, code).tokens

\* ---------------------------------------------------------------------
\* Parser (fsl_interpreter/parser.rs)
\* ---------------------------------------------------------------------
ERR_LOCATION_WIDTH == 3

CommandTypes ==
    {"Add", "Subtract", "Multiply", "Divide", "Mod", "SelectRandom", "Repeat", "While",
     "Copy", "Paste", "Print", "Concatenate", "IfThen", "IfThenElse", "Not", "And", "Or",
     "Eq", "Gt", "Lt", "GetSub", "NewLine", "Index", "Slice", "Length", "Swap", "Insert",
     "Remove", "Replace", "RandomRange", "Capitalize", "Upper", "Lower", "RemoveWhitespace",
     "StartsWith", "EndsWith"}

\* CommandType::from_str
from_str(s) ==
    IF \E command_type \in CommandTypes : S(to_str(command_type)) = s
    THEN [ok |-> TRUE, command_type |-> CHOOSE command_type \in CommandTypes :
                                            S(to_str(command_type)) = s]
    ELSE [ok |-> FALSE, command_type |-> ""]

RECURSIVE DigitsValue(_)
DigitsValue(digits) ==
    IF digits = << >> THEN 0
    ELSE 10 * DigitsValue(pop(digits))
         + (CHOOSE d \in 0..9 : DigitChar(d) = digits[Len(digits)])

RECURSIVE Pow10(_)
Pow10(n) == IF n = 0 THEN 1 ELSE 10 * Pow10(n - 1)

\* token.value.parse::<i64>(), else token.value.parse::<f64>()
NumberValue(value) ==
    LET sign == IF value[1] = "-" THEN -1 ELSE 1
    IN  IF IsIntLiteral(value) THEN IntV(sign * DigitsValue(Unsigned(value)))
        ELSE IF NoCase(Unsigned(value)) = S("nan") THEN FloatV(NaN)
        ELSE IF NoCase(Unsigned(value)) \in {S("inf"), S("infinity")} THEN FloatV(Inf(sign))
        ELSE FloatV(Rat(sign * DigitsValue(WholeDigits(value) \o FractionDigits(value)),
                        Pow10(Len(FractionDigits(value)))))

\* TokenIndex::comes_after, comes_before (index counts from 1)
comes_after(tokens, index, types) == tokens[Max(index - 1, 1)].token_type \in types
comes_before(tokens, index, types) ==
    index + 1 <= Len(tokens) /\ tokens[index + 1].token_type \in types

RECURSIVE Values(_)
\* the values of the tokens, one after the other
Values(tokens) == IF tokens = << >> THEN << >> ELSE Head(tokens).value \o Values(Tail(tokens))

\* TokenIndex::gen_err: "Syntax\nLocation: {}\nDescription: {}"
SyntaxError(tokens, index, description) ==
    [location |-> Values(SubSeq(tokens, Max(index - 1 - ERR_LOCATION_WIDTH, 0) + 1,
                                Min(index - 1 + ERR_LOCATION_WIDTH, Len(tokens)))),
     description |-> description]
NoError == [location |-> << >>, description |-> ""]

\* commands, command_stack of parse, and the error it returned with
NewParser == [commands |-> << >>, command_stack |-> << >>, err |-> NoError]

CommandIndex(command, index) == [command |-> command, index |-> index]

\* push_arg that puts the argument in front of the others
push_arg_front(p, value) ==
    [p EXCEPT !.command_stack[Len(p.command_stack)].command.args = <<value>> \o @]

\* command_stack.last_mut().command.args.push(value)
push_arg(p, value) ==
    [p EXCEPT !.command_stack[Len(p.command_stack)].command.args = Append(@, value)]

\* the ClosingParenthesis arm
close_command(p, tokens, index) ==
    IF p.command_stack = << >>
    THEN [p EXCEPT !.err = SyntaxError(tokens, index,
                                       "Closing parenthesis must close a commands arguments")]
    ELSE LET command == p.command_stack[Len(p.command_stack)].command
             popped == [p EXCEPT !.command_stack = pop(@)]
         IN  IF popped.command_stack = << >>
             THEN [popped EXCEPT !.commands = Append(@, command)]
             ELSE push_arg(popped, CommandV(command))

\* the Comma arm
comma(p, tokens, index) ==
    IF p.command_stack = << >>
    THEN [p EXCEPT !.err = SyntaxError(tokens, index, "Comma outside of a command")]
    ELSE p

\* the Command arm
open_command(p, tokens, index) ==
    LET token == tokens[index]
    IN  IF ~comes_before(tokens, index, {"OpeningParenthesis"})
        THEN [p EXCEPT !.err = SyntaxError(tokens, index,
                                           "Command must come before opening parenthesis")]
        ELSE IF token.value = << >>
        THEN [p EXCEPT !.err = SyntaxError(tokens, index,
                                           "Opening parenthesis must come after a command")]
        ELSE IF ~from_str(token.value).ok
        THEN [p EXCEPT !.err = [location |-> token.value, description |-> "Invalid command"]]
        ELSE [p EXCEPT !.command_stack =
                  Append(@, CommandIndex(Command(from_str(token.value).command_type, << >>),
                                         index))]

\* the arms of Number, Identifier and Keyword
argument(p, tokens, index, after, outside, misplaced, value) ==
    IF p.command_stack = << >> THEN [p EXCEPT !.err = SyntaxError(tokens, index, outside)]
    ELSE IF ~comes_after(tokens, index, after)
    THEN [p EXCEPT !.err = SyntaxError(tokens, index, misplaced)]
    ELSE push_arg(p, value)

\* one turn of `for (i, token) in tokens.iter().enumerate()`
parse_token(p, tokens, index) ==
    LET token == tokens[index]
        token_type == token.token_type
        after == {"Comma", "OpeningParenthesis"}
    IN  CASE token_type = "OpeningQuote" ->
                 IF p.command_stack = << >>
                 THEN [p EXCEPT !.err = SyntaxError(tokens, index,
                                                    "Opening quote outside of a command")]
                 ELSE IF ~comes_after(tokens, index, after)
                 THEN [p EXCEPT !.err = SyntaxError(tokens, index, "Misplaced opening quote")]
                 ELSE p
          [] token_type = "ClosingQuote" ->
                 IF p.command_stack = << >>
                 THEN [p EXCEPT !.err = SyntaxError(tokens, index,
                                                    "Closing quote outside of a command")]
                 ELSE IF ~comes_before(tokens, index, {"Comma", "ClosingParenthesis"})
                 THEN [p EXCEPT !.err = SyntaxError(tokens, index, "Misplaced closing quote")]
                 ELSE IF ~comes_after(tokens, index, {"Text"})
                 THEN [p EXCEPT !.err = SyntaxError(tokens, index, "Misplace closing quote")]
                 ELSE p
          [] token_type = "OpeningParenthesis" ->
                 IF ~comes_after(tokens, index, {"Command"})
                 THEN [p EXCEPT !.err = SyntaxError(tokens, index,
                                           "Opening parenthesis must come after a command")]
                 ELSE p
          [] token_type = "ClosingParenthesis" -> close_command(p, tokens, index)
          [] token_type = "Comma" -> comma(p, tokens, index)
          [] token_type = "Command" -> open_command(p, tokens, index)
          [] token_type = "Text" ->
                 IF p.command_stack = << >>
                 THEN [p EXCEPT !.err = SyntaxError(tokens, index, "Text outside of command")]
                 ELSE IF ~comes_after(tokens, index, {"OpeningQuote"})
                 THEN [p EXCEPT !.err = SyntaxError(tokens, index,
                                                    "Text must come after opening quotes")]
                 ELSE IF ~comes_before(tokens, index, {"ClosingQuote"})
                 THEN [p EXCEPT !.err = SyntaxError(tokens, index,
                                                    "Text must come before closing quotes")]
                 ELSE push_arg(p, TextV(Str(token.value)))
          [] token_type = "Number" ->
                 argument(p, tokens, index, after, "Number outside of command",
                          "Number outside of command", NumberValue(token.value))
          [] token_type = "Identifier" ->
                 argument(p, tokens, index, after, "Identifier outside of command",
                          "Identifier outside of command", IdentifierV(Name(token.value)))
          [] token_type = "Keyword" ->
                 argument(p, tokens, index, after, "Keyword outside of command",
                          "Keyword outside of command", BoolV(token.value = KEYWORD_TRUE))

\* the end of parse without the check of the stack
parse_end_unchecked(p, tokens) == p

\* after the loop: `if command_stack.len() != 0 { .. } else { Ok(commands) }`
parse_end(p, tokens) ==
    IF p.command_stack # << >>
    THEN LET command_index == p.command_stack[Len(p.command_stack)]
         IN  [p EXCEPT !.err =
                 SyntaxError(tokens, command_index.index,
                             "Missing closing parenthesis within command **"
                                 \o to_str(command_index.command.command_type) \o "**")]
    ELSE p

RECURSIVE parse_tokens(_, _, _)
parse_tokens(p, tokens, index) ==
    IF p.err # NoError THEN p
    ELSE IF index > Len(tokens) THEN parse_end(p, tokens)
    ELSE parse_tokens(parse_token(p, tokens, index), tokens, index + 1)

\* parse(tokens): Ok(commands) when err is NoError, else Err(err)
parse(tokens) == parse_tokens(NewParser, tokens, 1)

\* ---------------------------------------------------------------------
\* Arms of eval_command that evaluate nothing further
\* ---------------------------------------------------------------------
\* rng.gen_range(0..args.len()): the draw is taken from the step's seed
SelectRandom(command_type, args, st) ==
    IF Len(args) < 2 THEN gen_err(command_type, ERROR_TWO_OR_MORE_ARGS, st)
    ELSE LET index == st.seed % Len(args)
         IN  Ok(args[index + 1], [st EXCEPT !.seed = @ \div Len(args)])

\* Copy answering Ok without the insert_var
CopyInsertDropped(name, value, st) == Ok(NoneV, st)

\* the result of self.vars.insert_var(..) as Copy returns it
CopyInsert(name, value, st) ==
    LET r == insert_var(st.vars, name, value)
    IN  IF r.ok THEN Ok(NoneV, [st EXCEPT !.vars = r.vm])
        ELSE Err(ERROR_MEMORY_LIMIT, [st EXCEPT !.vars = r.vm])

\* FirstUnstorable looking for None alone
FirstNone(args) ==
    LET bad == {i \in 1..(Len(args) - 1) : args[i].k = "None"}
    IN  IF bad = {} THEN 0 ELSE CHOOSE i \in bad : \A j \in bad : i <= j

\* first Identifier or None among the values to store, 0 if there is none
FirstUnstorable(args) ==
    LET bad == {i \in 1..(Len(args) - 1) : args[i].k \in {"Identifier", "None"}}
    IN  IF bad = {} THEN 0 ELSE CHOOSE i \in bad : \A j \in bad : i <= j

Copy(command_type, args, st) ==
    IF Len(args) < 2 THEN gen_err(command_type, ERROR_TWO_OR_MORE_ARGS, st)
    ELSE IF Len(args) = 2
    THEN IF args[2].k = "Identifier"
         THEN CASE args[1].k = "Identifier" ->
                       gen_err(command_type, ERROR_ARG_ONE_MUST_NOT_BE_IDENTIFIER, st)
                [] args[1].k = "None" ->
                       gen_err(command_type, ERROR_ARG_ONE_MUST_NOT_BE_NONE, st)
                [] OTHER -> CopyInsert(args[2].v, args[1], st)
         ELSE gen_err(command_type, ERROR_ARG_TWO_MUST_BE_IDENTIFIER, st)
    ELSE IF args[Len(args)].k = "Identifier"
         THEN LET bad == FirstUnstorable(args)
              IN  IF bad # 0
                  THEN IF args[bad].k = "Identifier"
                       THEN gen_err(command_type, "cannot store arg of type Identifier", st)
                       ELSE gen_err(command_type, "cannot store arg of type None", st)
                  ELSE CopyInsert(args[Len(args)].v,
                                  ListV(SubSeq(args, 1, Len(args) - 1)), st)
         ELSE gen_err(command_type, "last arg must be of type Identifier", st)

Paste(command_type, args, st) ==
    IF Len(args) # 1 THEN gen_err(command_type, ERROR_EXACTLY_ONE_ARG, st)
    ELSE IF args[1].k = "Identifier"
         THEN LET value == get_var(st.vars, args[1].v)
              IN  IF value.some THEN Ok(value.value, st)
                  ELSE gen_err(command_type,
                               ERROR_UNKNOWN_IDENTIFIER \o " **" \o args[1].v \o "**", st)
         ELSE gen_err(command_type, ERROR_ARG_MUST_BE_IDENTIFIER, st)

RECURSIVE print_args(_, _, _)
RECURSIVE print_args_own_size(_, _, _)
\* print_args testing the argument's capacity alone against the ceiling
print_args_own_size(args, i, st) ==
    IF i > Len(args) THEN Ok(NoneV, st)
    ELSE IF to_string_panics(args[i]) THEN Panic(st)
    ELSE LET arg_string == to_string(args[i])
             arg_capacity == to_string_capacity(args[i], TextLen(arg_string), st.pol)
         IN  IF arg_capacity <= OUTPUT_BYTE_LIMIT
             THEN print_args_own_size(args, i + 1,
                             [st EXCEPT !.output = TextCat(@, arg_string),
                                        !.output_cap = push_str_capacity(@, TextLen(st.output),
                                                                    TextLen(arg_string), st.pol)])
             ELSE Err(ERROR_OUTPUT_LIMIT, st)

\* for arg in args { ... }: the arguments before a failing one stay written
print_args(args, i, st) ==
    IF i > Len(args) THEN Ok(NoneV, st)
    ELSE IF to_string_panics(args[i]) THEN Panic(st)
    ELSE LET arg_string == to_string(args[i])
             arg_capacity == to_string_capacity(args[i], TextLen(arg_string), st.pol)
         IN  IF saturating_add(st.output_cap, arg_capacity) <= OUTPUT_BYTE_LIMIT
             THEN print_args(args, i + 1,
                             [st EXCEPT !.output = TextCat(@, arg_string),
                                        !.output_cap = push_str_capacity(@, TextLen(st.output),
                                                                    TextLen(arg_string), st.pol)])
             ELSE Err(ERROR_OUTPUT_LIMIT, st)

RECURSIVE ConcatAll(_)
ConcatAll(args) ==
    IF args = << >> THEN EmptyText ELSE TextCat(to_string(args[1]), ConcatAll(Tail(args)))

Concatenate(args, st) ==
    IF \E i \in 1..Len(args) : to_string_panics(args[i]) THEN Panic(st)
    ELSE Ok(TextV(ConcatAll(args)), st)

Not(command_type, args, st) ==
    IF Len(args) # 1 THEN gen_err(command_type, ERROR_EXACTLY_ONE_ARG, st)
    ELSE IF args[1].k = "Bool" THEN Ok(BoolV(~args[1].v), st)
    ELSE gen_err(command_type, ERROR_ARG_ONE_MUST_BE_BOOL, st)

\* And (value & bool from true) and Or (value | bool from false)
AndOr(command_type, args, st) ==
    IF Len(args) < 2 THEN gen_err(command_type, ERROR_TWO_OR_MORE_ARGS, st)
    ELSE IF \E i \in 1..Len(args) : args[i].k # "Bool"
         THEN gen_err(command_type, ERROR_ARGS_MUST_BE_BOOL, st)
    ELSE IF command_type = "And"
         THEN Ok(BoolV(\A i \in 1..Len(args) : args[i].v), st)
         ELSE Ok(BoolV(\E i \in 1..Len(args) : args[i].v), st)

\* the hard-coded epsilon 0.0001 of Eq on two floats
Epsilon == <<1, 10000>>

Eq(command_type, args, st) ==
    IF Len(args) # 2 THEN gen_err(command_type, ERROR_EXACTLY_TWO_ARGS, st)
    ELSE LET a == args[1]
             b == args[2]
         IN  CASE a.k = "Text" /\ b.k = "Text" -> Ok(BoolV(a.v = b.v), st)
               [] a.k = "Int" /\ b.k = "Int" -> Ok(BoolV(a.v = b.v), st)
               [] a.k = "Int" /\ b.k = "Float" ->
                      Ok(BoolV(~IsNaN(b.v) /\ IntToFloat(a.v) = b.v), st)
               [] a.k = "Float" /\ b.k = "Int" ->
                      Ok(BoolV(~IsNaN(a.v) /\ a.v = IntToFloat(b.v)), st)
               [] a.k = "Float" /\ b.k = "Float" ->
                      Ok(BoolV(FLess(a.v, FAdd(b.v, Epsilon))
                               /\ FLess(FSub(b.v, Epsilon), a.v)), st)
               [] a.k = "Bool" /\ b.k = "Bool" -> Ok(BoolV(a.v = b.v), st)
               [] OTHER ->
                      \* the message formats both arguments with to_string
                      IF to_string_panics(a) \/ to_string_panics(b) THEN Panic(st)
                      ELSE gen_err(command_type, "Cannot compare", st)

\* Gt and Lt
Compare(command_type, args, st) ==
    IF Len(args) # 2 THEN gen_err(command_type, ERROR_EXACTLY_TWO_ARGS, st)
    ELSE LET a == extract_float(args[1])
             b == extract_float(args[2])
         IN  IF a.some /\ b.some
             THEN IF command_type = "Gt" THEN Ok(BoolV(FLess(b.f, a.f)), st)
                  ELSE Ok(BoolV(FLess(a.f, b.f)), st)
             ELSE gen_err(command_type, ERROR_ARGS_MUST_BE_NUMBER, st)

NewLine(command_type, args, st) ==
    IF Len(args) # 0 THEN gen_err(command_type, ERROR_NO_ARGS, st)
    ELSE Ok(TextV(Str(<<"\n">>)), st)

\* ---------------------------------------------------------------------
\* Text and List arms of eval_command
\* ---------------------------------------------------------------------

\* `*i as usize`: a negative index wraps to a value above every length,
\* smaller negatives to smaller values
AsUsize(i) == IF i < 0 THEN 2147483647 + (i + 1) ELSE i

\* chars.swap(a, b) / values.swap(a, b) on a Vec (a, b in range)
SwapSeq(values, a, b) ==
    [n \in 1..Len(values) |->
        IF n = a + 1 THEN values[b + 1] ELSE IF n = b + 1 THEN values[a + 1] ELSE values[n]]

\* the character at byte i, as a text
TextAt(t, i) == TextTake(TextDrop(t, i), 1)

\* the text with the character at i replaced by the text c
TextSet(t, i, c) == TextCat(TextCat(TextTake(t, i), c), TextDrop(t, i + 1))

Index(command_type, args, st) ==
    IF Len(args) # 2 THEN gen_err(command_type, ERROR_EXACTLY_TWO_ARGS, st)
    ELSE IF args[1].k = "Int"
    THEN LET i == AsUsize(args[1].v)
         IN  CASE args[2].k = "Text" ->
                     IF i < TextLen(args[2].v) THEN Ok(TextV(TextAt(args[2].v, i)), st)
                     ELSE gen_err(command_type, "index out of bounds", st)
               [] args[2].k = "List" ->
                     IF i < Len(args[2].v) THEN Ok(args[2].v[i + 1], st)
                     ELSE gen_err(command_type, "index out of bounds", st)
               [] OTHER -> gen_err(command_type, "second argument must be of type Text or List", st)
    ELSE gen_err(command_type, "first argument must be of type Integer", st)

Slice(command_type, args, st) ==
    IF Len(args) # 3 THEN gen_err(command_type, ERROR_EXACTLY_THREE_ARGS, st)
    ELSE IF args[1].k = "Int" /\ args[2].k = "Int"
    THEN LET a == AsUsize(args[1].v)
             b == AsUsize(args[2].v)
             len == IF args[3].k = "Text" THEN TextLen(args[3].v)
                    ELSE IF args[3].k = "List" THEN Len(args[3].v) ELSE 0
         IN  IF args[3].k \notin {"Text", "List"}
             THEN gen_err(command_type, "third argument must be of type Text or List", st)
             ELSE IF a >= b THEN gen_err(command_type, "first argument must be less than second argument", st)
             ELSE IF a > len \/ b > len
                  THEN gen_err(command_type, "index out of bounds", st)
             ELSE IF args[3].k = "Text"
                  THEN Ok(TextV(TextTake(TextDrop(args[3].v, a), b - a)), st)
                  ELSE Ok(ListV(SubSeq(args[3].v, a + 1, b)), st)
    ELSE gen_err(command_type, "first two arguments must be of type Integer", st)

Length(command_type, args, st) ==
    IF Len(args) # 1 THEN gen_err(command_type, ERROR_EXACTLY_ONE_ARG, st)
    ELSE CASE args[1].k = "Text" -> Ok(IntV(TextLen(args[1].v)), st)
           [] args[1].k = "List" -> Ok(IntV(Len(args[1].v)), st)
           [] OTHER -> gen_err(command_type, "first argument must be of type Text or List", st)

\* the guard is `a > len || b > len`; Vec::swap panics on an index = len
Swap(command_type, args, st) ==
    IF Len(args) # 3 THEN gen_err(command_type, ERROR_EXACTLY_THREE_ARGS, st)
    ELSE IF args[1].k = "Int" /\ args[2].k = "Int"
    THEN LET a == AsUsize(args[1].v)
             b == AsUsize(args[2].v)
             len == IF args[3].k = "Text" THEN TextLen(args[3].v)
                    ELSE IF args[3].k = "List" THEN Len(args[3].v) ELSE 0
         IN  IF args[3].k \notin {"Text", "List"}
             THEN gen_err(command_type, "third argument must be of type Text or List", st)
             ELSE IF a > len \/ b > len
                  THEN gen_err(command_type, "index out of bounds", st)
             ELSE IF a >= len \/ b >= len THEN Panic(st)
             ELSE IF args[3].k = "Text"
                  THEN Ok(TextV(TextSet(TextSet(args[3].v, a, TextAt(args[3].v, b)),
                                        b, TextAt(args[3].v, a))), st)
                  ELSE Ok(ListV(SwapSeq(args[3].v, a, b)), st)
    ELSE gen_err(command_type, "first two arguments must be of type Integer", st)

Insert(command_type, args, st) ==
    IF Len(args) # 3 THEN gen_err(command_type, ERROR_EXACTLY_THREE_ARGS, st)
    ELSE IF args[2].k = "Int"
    THEN LET i == AsUsize(args[2].v)
         IN  CASE args[3].k = "Text" ->
                     IF args[1].k = "Text"
                     THEN IF i > TextLen(args[3].v)
                          THEN gen_err(command_type, "index out of bounds", st)
                          ELSE Ok(TextV(TextCat(TextCat(TextTake(args[3].v, i), args[1].v),
                                                TextDrop(args[3].v, i))), st)
                     ELSE gen_err(command_type, "first argument must be of type Text when inserting into type Text", st)
               [] args[3].k = "List" ->
                     CASE args[1].k = "Identifier" ->
                              gen_err(command_type, "cannot insert values of type Identifier into type List", st)
                       [] args[1].k = "None" -> gen_err(command_type, "cannot insert values of type None into type List", st)
                       [] OTHER ->
                              IF i > Len(args[3].v)
                              THEN gen_err(command_type, "index out of bounds", st)
                              ELSE Ok(ListV(SubSeq(args[3].v, 1, i) \o <<args[1]>>
                                            \o SubSeq(args[3].v, i + 1, Len(args[3].v))), st)
               [] OTHER -> gen_err(command_type, "third argument must be of type Text or List", st)
    ELSE gen_err(command_type, "second argument must be of type Integer", st)

Remove(command_type, args, st) ==
    IF Len(args) # 2 THEN gen_err(command_type, ERROR_EXACTLY_TWO_ARGS, st)
    ELSE IF args[1].k = "Int"
    THEN LET i == AsUsize(args[1].v)
         IN  CASE args[2].k = "Text" ->
                     IF i >= TextLen(args[2].v)
                     THEN gen_err(command_type, "index out of bounds", st)
                     ELSE Ok(TextV(TextCat(TextTake(args[2].v, i), TextDrop(args[2].v, i + 1))), st)
               [] args[2].k = "List" ->
                     IF i >= Len(args[2].v)
                     THEN gen_err(command_type, "index out of bounds", st)
                     ELSE Ok(ListV(SubSeq(args[2].v, 1, i)
                                   \o SubSeq(args[2].v, i + 2, Len(args[2].v))), st)
               [] OTHER -> gen_err(command_type, "second argument must be of type Text or List", st)
    ELSE gen_err(command_type, "first argument must be of type Integer", st)

Replace(command_type, args, st) ==
    IF Len(args) # 3 THEN gen_err(command_type, ERROR_EXACTLY_THREE_ARGS, st)
    ELSE IF args[2].k = "Int"
    THEN LET i == AsUsize(args[2].v)
         IN  CASE args[3].k = "Text" ->
                     IF args[1].k = "Text"
                     THEN IF i >= TextLen(args[3].v)
                          THEN gen_err(command_type, "index out of bounds", st)
                          ELSE Ok(TextV(TextSet(args[3].v, i, args[1].v)), st)
                     ELSE gen_err(command_type, "first argument must be of type Text when inserting into type Text", st)
               [] args[3].k = "List" ->
                     CASE args[1].k = "Identifier" ->
                              gen_err(command_type, "cannot insert values of type Identifier into type List", st)
                       [] args[1].k = "None" -> gen_err(command_type, "cannot insert values of type None into type List", st)
                       [] OTHER ->
                              IF i >= Len(args[3].v)
                              THEN gen_err(command_type, "index out of bounds", st)
                              ELSE Ok(ListV([args[3].v EXCEPT ![i + 1] = args[1]]), st)
               [] OTHER -> gen_err(command_type, "third argument must be of type Text or List", st)
    ELSE gen_err(command_type, "second argument must be of type Integer", st)

\* length to which the evaluation trace (a history of the eval_command
\* calls of one statement) is recorded
TraceMax == 12

\* the history of one statement's eval_command calls: a "call" entry when
\* a call starts and a "ret" entry with the value when it returns Ok, in
\* the order they happen, up to TraceMax entries; GetSub adds a "lock"
\* and an "unlock" entry where it takes and drops the database lock
TraceEntry(ev, command, val) == [ev |-> ev, command |-> command, val |-> val]

Record(ev, command, val, st) ==
    IF Len(st.trace) < TraceMax
    THEN [st EXCEPT !.trace = Append(@, TraceEntry(ev, command, val))]
    ELSE st

\* Interpreter.db: Some(db) or None
Option(some, fdb) == [some |-> some, db |-> fdb]

NestedTemplateLoopError == "detected infinitely looping nested templates"

\* the interpreter when GetSub's interpolation has run under the lock
\* (locked) with the result out
GetSubInterpolated(out, locked) ==
    [locked EXCEPT !.template_set = out.s.template_set, !.seed = out.s.seed]

\* drop(fdb); the trace notes the lookups made since the lock was taken
GetSubDrop(out, st) ==
    Record("unlock", NoCommand, IntV(out.s.lookups), [st EXCEPT !.lock = "free"])

\* the end of the GetSub arm, returning the error while the lock is held
GetSubMatchHoldsLockOnError(out, locked) ==
    IF out.kind = "ok"
    THEN Ok(TextV(Str(out.val)), GetSubDrop(out, GetSubInterpolated(out, locked)))
    ELSE IF out.kind = "err"
    THEN Err(NestedTemplateLoopError, GetSubInterpolated(out, locked))
    ELSE Panic(GetSubInterpolated(out, locked))

\* the end of the GetSub arm: drop(fdb), then the match on the result of
\* the interpolation (a recursion deeper than MaxDepth is outside the
\* model and shows as a panic)
GetSubMatch(out, locked) ==
    IF out.kind = "ok"
    THEN Ok(TextV(Str(out.val)), GetSubDrop(out, GetSubInterpolated(out, locked)))
    ELSE IF out.kind = "err"
    THEN Err(NestedTemplateLoopError, GetSubDrop(out, GetSubInterpolated(out, locked)))
    ELSE Panic(GetSubInterpolated(out, locked))

\* CommandType::GetSub: with a database, fdb.lock().await, then
\* TextInterpolator::interp of TEMPLATE_CARROT + sub with the
\* interpreter's own template_set
GetSub(command_type, args, st) ==
    IF Len(args) # 1 THEN gen_err(command_type, ERROR_EXACTLY_ONE_ARG, st)
    ELSE IF args[1].k # "Text" THEN gen_err(command_type, "argument must be of type Text", st)
    ELSE IF ~st.fdb.some
    THEN Err("interpreter attempt to use database with no reference.", st)
    ELSE GetSubMatch(interp(<<TEMPLATE_CARROT>> \o Chars(args[1].v), st.fdb.db, << >>,
                            NewInterpolation(st.template_set, st.seed)),
                     Record("lock", NoCommand, NoneV, [st EXCEPT !.lock = "get_sub"]))

\* ---------------------------------------------------------------------
\* eval_command
\* ---------------------------------------------------------------------
\* IsLazy without the arms of IfThen and IfThenElse: the branches are
\* evaluated as arguments
IsLazyButIf(command_type, i) ==
    \/ command_type = "Repeat" /\ i # 0
    \/ command_type = "While"

\* IsLazy without the arm of Repeat: the body is evaluated as an argument
IsLazyButRepeat(command_type, i) ==
    \/ command_type = "IfThen" /\ i = 1
    \/ command_type = "IfThenElse" /\ (i = 1 \/ i = 2)
    \/ command_type = "While"

\* the arguments eval_command leaves unevaluated (i counts from 0)
IsLazy(command_type, i) ==
    \/ command_type = "IfThen" /\ i = 1
    \/ command_type = "IfThenElse" /\ (i = 1 \/ i = 2)
    \/ command_type = "Repeat" /\ i # 0
    \/ command_type = "While"

RECURSIVE eval_command(_, _)
RECURSIVE eval_args(_, _, _, _, _)
RECURSIVE eval_body(_, _, _, _)
RECURSIVE repeat_iterations(_, _, _, _)
RECURSIVE while_iterations(_, _, _, _, _)

RECURSIVE eval_args_last_first(_, _, _, _, _)
\* eval_args taking the arguments from the last to the first
eval_args_last_first(command, i, args, has_float_arg, st) ==
    IF i >= Len(command.args)
    THEN Ok([args |-> args, has_float_arg |-> has_float_arg], st)
    ELSE LET p == Len(command.args) - i
             arg == command.args[p]
         IN  IF arg.k = "Command"
             THEN IF IsLazy(command.command_type, p - 1)
                  THEN eval_args_last_first(command, i + 1, <<arg>> \o args, has_float_arg, st)
                  ELSE LET r == eval_command(arg.v, st)
                       IN  IF r.kind # "ok" THEN r
                           ELSE eval_args_last_first(command, i + 1, <<r.val>> \o args,
                                                     has_float_arg, r.st)
             ELSE eval_args_last_first(command, i + 1, <<arg>> \o args,
                                       has_float_arg \/ arg.k = "Float", st)

\* for arg in command.args { ... i += 1 }: val is [args, has_float_arg]
eval_args(command, i, args, has_float_arg, st) ==
    IF i >= Len(command.args)
    THEN Ok([args |-> args, has_float_arg |-> has_float_arg], st)
    ELSE LET arg == command.args[i + 1]
         IN  IF arg.k = "Command"
             THEN IF IsLazy(command.command_type, i)
                  THEN eval_args(command, i + 1, Append(args, arg), has_float_arg, st)
                  ELSE LET r == eval_command(arg.v, st)
                       IN  IF r.kind # "ok" THEN r
                           ELSE eval_args(command, i + 1, Append(args, r.val),
                                          has_float_arg, r.st)
             ELSE IF arg.k = "Float"
                  THEN eval_args(command, i + 1, Append(args, arg), TRUE, st)
                  ELSE eval_args(command, i + 1, Append(args, arg), has_float_arg, st)

\* for arg in &args[1..args.len()] { if let ValueType::Command(command) = arg
\* { self.eval_command(command.clone()).await?; } else { return Err(..) } }
eval_body(command_type, args, j, st) ==
    IF j > Len(args) THEN Ok(NoneV, st)
    ELSE IF args[j].k = "Command"
         THEN LET r == eval_command(args[j].v, st)
              IN  IF r.kind # "ok" THEN r ELSE eval_body(command_type, args, j + 1, r.st)
         ELSE gen_err(command_type, ERROR_ARGS_AFTER_ARG_ONE_MUST_BE_COMMAND, st)

\* for _i in 0..n { body }: the range is evaluated in halves so that the
\* evaluation depth is logarithmic in n; the iterations run in order and the
\* first failure ends the loop
repeat_iterations(command_type, args, n, st) ==
    IF n <= 0 THEN Ok(NoneV, st)
    ELSE IF n = 1 THEN eval_body(command_type, args, 2, st)
    ELSE LET first == repeat_iterations(command_type, args, n \div 2, st)
         IN  IF first.kind # "ok" THEN first
             ELSE repeat_iterations(command_type, args, n - (n \div 2), first.st)

Repeat(command_type, args, st) ==
    IF Len(args) < 2 THEN gen_err(command_type, ERROR_TWO_OR_MORE_ARGS, st)
    ELSE IF args[1].k = "Int"
         THEN IF args[1].v > LOOP_LIMIT
              THEN gen_err(command_type, ERROR_REPEAT_LIMIT, st)
              ELSE repeat_iterations(command_type, args, args[1].v, st)
         ELSE gen_err(command_type, ERROR_ARG_ONE_MUST_BE_WHOLE_NUMBER, st)

\* what one pass of While's `loop { .. }` leaves: fin with the value While
\* returns, or not fin with the state and the count for the next pass
WhileDone(res, loop_count) == [fin |-> TRUE, res |-> res, loop_count |-> loop_count]
WhileNext(res, loop_count) == [fin |-> FALSE, res |-> res, loop_count |-> loop_count]

\* u16::saturating_add(1)
NextLoopCount(loop_count) == Min(loop_count + 1, U16_MAX)

\* the test that ends While after a pass: loop_count >= LOOP_LIMIT
LoopLimitReached(loop_count) == loop_count >= LOOP_LIMIT

\* While with no test of loop_count after a pass
while_pass_unlimited(command_type, args, st, loop_count) ==
    IF args[1].k = "Command"
    THEN LET c == eval_command(args[1].v, st)
         IN  IF c.kind # "ok" THEN WhileDone(c, loop_count)
             ELSE IF c.val.k = "Bool"
             THEN IF c.val.v
                  THEN LET b == eval_body(command_type, args, 2, c.st)
                       IN  IF b.kind # "ok" THEN WhileDone(b, loop_count)
                           ELSE WhileNext(b, NextLoopCount(loop_count))
                  ELSE WhileDone(Ok(NoneV, c.st), loop_count)
             ELSE WhileDone(gen_err(command_type, ERROR_ARG_ONE_MUST_BE_COMMAND_BOOL, c.st),
                            loop_count)
    ELSE WhileDone(gen_err(command_type, ERROR_ARG_ONE_MUST_BE_COMMAND_BOOL, st), loop_count)

\* one pass of the loop body of While
while_pass(command_type, args, st, loop_count) ==
    IF args[1].k = "Command"
    THEN LET c == eval_command(args[1].v, st)
         IN  IF c.kind # "ok" THEN WhileDone(c, loop_count)
             ELSE IF c.val.k = "Bool"
             THEN IF c.val.v
                  THEN LET b == eval_body(command_type, args, 2, c.st)
                           n == NextLoopCount(loop_count)
                       IN  IF b.kind # "ok" THEN WhileDone(b, loop_count)
                           ELSE IF LoopLimitReached(n)
                                THEN WhileDone(gen_err(command_type, ERROR_LOOP_LIMIT, b.st), n)
                                ELSE WhileNext(b, n)
                  ELSE WhileDone(Ok(NoneV, c.st), loop_count)
             ELSE WhileDone(gen_err(command_type, ERROR_ARG_ONE_MUST_BE_COMMAND_BOOL, c.st),
                            loop_count)
    ELSE WhileDone(gen_err(command_type, ERROR_ARG_ONE_MUST_BE_COMMAND_BOOL, st), loop_count)

\* up to `passes` passes of the loop, in order, evaluated in halves (as
\* repeat_iterations); the loop cannot outlast LOOP_LIMIT passes
while_iterations(command_type, args, st, loop_count, passes) ==
    IF passes <= 1 THEN while_pass(command_type, args, st, loop_count)
    ELSE LET first == while_iterations(command_type, args, st, loop_count, passes \div 2)
         IN  IF first.fin THEN first
             ELSE while_iterations(command_type, args, first.res.st, first.loop_count,
                                   passes - (passes \div 2))

\* the loop is still running after LOOP_LIMIT passes: it has not returned
StillLooping(st) == [kind |-> "looping", val |-> NoneV, cmd |-> "", desc |-> "", st |-> st]

\* what the passes leave: the value While returned, if it did
WhileReturns(w) == IF w.fin THEN w.res ELSE StillLooping(w.res.st)

While(command_type, args, st) ==
    IF Len(args) < 2 THEN gen_err(command_type, ERROR_TWO_OR_MORE_ARGS, st)
    ELSE WhileReturns(while_iterations(command_type, args, st, 0, LOOP_LIMIT))

\* IfThen and its taken branch
IfThen(command_type, args, st) ==
    IF Len(args) # 2 THEN gen_err(command_type, ERROR_EXACTLY_TWO_ARGS, st)
    ELSE IF args[1].k = "Bool"
         THEN IF args[1].v
              THEN IF args[2].k = "Command" THEN eval_command(args[2].v, st)
                   ELSE Ok(args[2], st)
              ELSE Ok(NoneV, st)
         ELSE gen_err(command_type, ERROR_ARG_ONE_MUST_BE_BOOL, st)

IfThenElse(command_type, args, st) ==
    IF Len(args) # 3 THEN gen_err(command_type, ERROR_EXACTLY_THREE_ARGS, st)
    ELSE IF args[1].k = "Bool"
         THEN LET branch == IF args[1].v THEN args[2] ELSE args[3]
              IN  IF branch.k = "Command" THEN eval_command(branch.v, st)
                  ELSE Ok(branch, st)
         ELSE gen_err(command_type, ERROR_ARG_ONE_MUST_BE_BOOL, st)

\* match command_type { ... }
apply_command(command_type, args, has_float_arg, st) ==
    CASE command_type \in {"Add", "Subtract", "Multiply", "Divide", "Mod"} ->
             Arithmetic(command_type, args, has_float_arg, st)
      [] command_type = "SelectRandom" -> SelectRandom(command_type, args, st)
      [] command_type = "Repeat" -> Repeat(command_type, args, st)
      [] command_type = "While" -> While(command_type, args, st)
      [] command_type = "Copy" -> Copy(command_type, args, st)
      [] command_type = "Paste" -> Paste(command_type, args, st)
      [] command_type = "Print" -> print_args(args, 1, st)
      [] command_type = "Concatenate" -> Concatenate(args, st)
      [] command_type = "IfThen" -> IfThen(command_type, args, st)
      [] command_type = "IfThenElse" -> IfThenElse(command_type, args, st)
      [] command_type = "Not" -> Not(command_type, args, st)
      [] command_type \in {"And", "Or"} -> AndOr(command_type, args, st)
      [] command_type = "Eq" -> Eq(command_type, args, st)
      [] command_type \in {"Gt", "Lt"} -> Compare(command_type, args, st)
      [] command_type = "NewLine" -> NewLine(command_type, args, st)
      [] command_type = "GetSub" -> GetSub(command_type, args, st)
      [] command_type = "Index" -> Index(command_type, args, st)
      [] command_type = "Slice" -> Slice(command_type, args, st)
      [] command_type = "Length" -> Length(command_type, args, st)
      [] command_type = "Swap" -> Swap(command_type, args, st)
      [] command_type = "Insert" -> Insert(command_type, args, st)
      [] command_type = "Remove" -> Remove(command_type, args, st)
      [] command_type = "Replace" -> Replace(command_type, args, st)

eval_command(command, st) ==
    LET a == eval_args(command, 0, << >>, FALSE, Record("call", command, NoneV, st))
        r == IF a.kind # "ok" THEN a
             ELSE apply_command(command.command_type, a.val.args, a.val.has_float_arg, a.st)
    IN  IF r.kind = "ok" THEN [r EXCEPT !.st = Record("ret", command, r.val, r.st)] ELSE r

\* ---------------------------------------------------------------------
\* The Interpreter as a state machine
\* ---------------------------------------------------------------------
VARIABLES
    vars,        \* Interpreter.vars: the VarMap [data, size]
    output,      \* Interpreter.output
    output_cap,  \* self.output.capacity()
    commands,    \* interpret: the statements `for command in commands` has left
    status,      \* "idle" | "running" | "err" | "panic"
    calls,       \* number of interpret calls made on this Interpreter
    returned,    \* the String of the last Ok(..) of interpret
    stmt,        \* the statement the last step evaluated
    result,      \* what its eval_command returned: [kind, val, cmd, desc]
    trace,       \* the eval_command calls of that statement
    has_db,      \* Interpreter.db is Some(db)
    template_set \* Interpreter.interpolator.template_set

interpreter == <<vars, output, output_cap, commands, status, calls, returned, stmt, result, trace>>

\* the substitution source, shared by the requests
VARIABLES
    db,          \* FunboyDatabase: the substitutes of each template
    lock,        \* holder of the Mutex around it: "free" | "interp_input" | "get_sub" | "add_subs"
                 \* | "other"
    adding,      \* an add_subs request: "idle" | "locked" | "done"
    other        \* a second interp_input request, by its lock operations:
                 \* "idle" | "lock" | "interp" | "eval" | "get_sub" | "got" | "done"

source == <<db, lock, adding, other>>

\* one interp_input request
VARIABLES
    pc,              \* "idle" | "lock" | "interp" | "drop" | "scan" | "parse" | "eval" | "done"
    input,           \* the text of the request
    interpolation,   \* what interpolator.interp returned
    reply,           \* what interp_input returned
    rest,            \* interpret_embedded_code: the characters not yet read
    embedded_output, \* its output
    code_stack,
    code_depth,
    evaluated,       \* the code handed to interpret, in the order of the calls
    tokens,          \* parse: the tokens,
    token_index,     \* the index of the next one,
    parser           \* and commands, command_stack

call == <<pc, input, interpolation, reply>>
scan == <<rest, embedded_output, code_stack, code_depth, evaluated>>
syntax == <<tokens, token_index, parser>>

pipeline == <<interpreter, has_db, template_set, source, call, scan, syntax>>

NoResult == [kind |-> "none", val |-> NoneV, cmd |-> "", desc |-> ""]
NoInterpolation == [kind |-> "none", val |-> << >>, s |-> NewInterpolation({}, 0)]
NoReply == [kind |-> "none", text |-> << >>, error |-> NoError]

\* ---------------------------------------------------------------------
\* The code handed to interpret: parsed statements, drawn from bounded sets
\* ---------------------------------------------------------------------
T(chars) == TextV(Str(chars))
I(n) == IntV(n)
F(n, d) == FloatV(<<n, d>>)
B(b) == BoolV(b)
Id(name) == IdentifierV(name)
Cv(command_type, args) == CommandV(Command(command_type, args))
\* a text of n copies of one character
Rep(char, n) == TextV(<< <<char, n>> >>)

PasteOf(name) == Cv("Paste", <<Id(name)>>)
PrintOf(chars) == Cv("Print", <<T(chars)>>)
\* copy(concat(paste(name), paste(name)), name): doubles a stored text
Double(name) == Cv("Copy", <<Cv("Concatenate", <<PasteOf(name), PasteOf(name)>>), Id(name)>>)
\* copy(add(paste(name), 1), name)
Increment(name) == Cv("Copy", <<Cv("Add", <<PasteOf(name), I(1)>>), Id(name)>>)
\* eq(concat(print(chars)), want): prints chars, then compares "" with want
PrintingCond(chars, want) == Cv("Eq", <<Cv("Concatenate", <<PrintOf(chars)>>), T(want)>>)

\* a sequence of command values as the statements of a program
RECURSIVE Stmts(_)
Stmts(values) == IF values = << >> THEN << >> ELSE <<values[1].v>> \o Stmts(Tail(values))

ArithOps == {"Add", "Subtract", "Multiply", "Divide", "Mod"}

\* f holds a Float and n an Int for the programs that paste them
NumSetup == <<Cv("Copy", <<F(3, 2), Id("f")>>), Cv("Copy", <<I(7), Id("n")>>)>>

NumAtoms ==
    {I(0), I(5), I(-3), F(1, 2), F(0, 1),
     Cv("Add", <<I(1), I(2)>>), Cv("Add", <<F(1, 2), F(1, 1)>>),
     PasteOf("f"), PasteOf("n")}

ArithPrograms ==
    {Stmts(NumSetup \o <<Cv(op, <<a, b>>)>>) : op \in ArithOps, a \in NumAtoms, b \in NumAtoms}
    \cup {Stmts(<<Cv(op, <<a, b, c>>)>>) :
              op \in ArithOps, a \in {I(4), F(1, 2)}, b \in {I(0), I(2), F(2, 1)},
              c \in {I(0), I(2)}}
    \cup {Stmts(<<Cv(op, <<a>>)>>) : op \in ArithOps, a \in {I(1)}}
    \cup {Stmts(<<Cv(op, <<a, b>>)>>) : op \in ArithOps, a \in {T(<<"a">>), I(1)},
                                         b \in {T(<<"a">>), B(TRUE)}}

\* x = 1 and "b" printed before the loop statement runs
LoopSetup == <<Cv("Copy", <<I(1), Id("x")>>), PrintOf(<<"b">>)>>

RepeatCounts == {-1, 0, 1, 2, 3, LOOP_LIMIT + 1, LOOP_LIMIT + 2}

RepeatPrograms ==
    {Stmts(LoopSetup \o <<Cv("Repeat", <<I(n), PrintOf(<<"a">>), Cv("Copy", <<I(2), Id("x")>>)>>)>>) :
         n \in RepeatCounts}
    \cup {Stmts(<<Cv("Repeat", <<I(3), PrintOf(<<"a", " ">>)>>)>>),
          Stmts(<<Cv("Repeat", <<F(3, 2), PrintOf(<<"a">>)>>)>>),
          Stmts(<<Cv("Repeat", <<I(2), PrintOf(<<"a">>), I(5)>>)>>),
          Stmts(<<Cv("Repeat", <<I(2)>>)>>),
          Stmts(<<Cv("Repeat", <<Cv("Add", <<I(LOOP_LIMIT), I(1)>>), PrintOf(<<"a">>)>>)>>),
          Stmts(<<Cv("Repeat", <<I(2), Cv("Repeat", <<I(2), PrintOf(<<"a">>)>>)>>)>>),
          Stmts(<<Cv("IfThen", <<B(TRUE), Cv("Repeat", <<I(LOOP_LIMIT + 1), PrintOf(<<"a">>)>>)>>)>>)}

\* while(lt(paste(i), k), copy(add(paste(i), 1), i)) from i = 0: the
\* condition holds on exactly its first k checks
WhileCounts == {0, 1, 2, 3}

CountingWhile(k) ==
    Stmts(<<Cv("Copy", <<I(0), Id("i")>>),
            Cv("While", <<Cv("Lt", <<PasteOf("i"), I(k)>>), Increment("i")>>)>>)

WhilePrograms ==
    {CountingWhile(k) : k \in WhileCounts}
    \cup {Stmts(<<Cv("Copy", <<I(0), Id("i")>>),
                  Cv("While", <<Cv("Lt", <<PasteOf("i"), I(2)>>), PrintOf(<<"w">>),
                                Increment("i")>>)>>),
          Stmts(<<Cv("While", <<B(TRUE), PrintOf(<<"w">>)>>)>>),
          Stmts(<<Cv("While", <<Cv("Add", <<I(1), I(1)>>), PrintOf(<<"w">>)>>)>>),
          Stmts(<<Cv("While", <<Cv("Eq", <<I(1), I(1)>>), I(5)>>)>>),
          Stmts(<<Cv("While", <<Cv("Eq", <<I(1), I(1)>>)>>)>>)}

\* s = "aaaaaaaa", doubled n times by a Repeat
GrowS(n) == <<Cv("Copy", <<Rep("a", 8), Id("s")>>), Cv("Repeat", <<I(n), Double("s")>>)>>

\* after 19 doublings s holds 4 MiB: one such value fits under the ceiling,
\* two do not, and neither does the 8 MiB of a 20th doubling
\* the longest text whose get_size is VAR_MAP_BYTE_LIMIT
FullText == VAR_MAP_BYTE_LIMIT - SIZE_OF_VALUE_TYPE

TwiceS == Cv("Concatenate", <<PasteOf("s"), PasteOf("s")>>)

MemPrograms ==
    {Stmts(GrowS(19) \o <<Cv("Copy", <<PasteOf("s"), Id("t")>>)>>),
     Stmts(GrowS(20)),
     Stmts(GrowS(19) \o <<Double("s")>>),
     Stmts(GrowS(19) \o <<Cv("Copy", <<TwiceS, Id("t")>>)>>),
     Stmts(GrowS(19) \o <<Cv("Copy", <<I(1), I(2), TwiceS, Id("s")>>)>>),
     Stmts(GrowS(19)
           \o <<Cv("Copy", <<Cv("Slice", <<I(0), I(FullText), TwiceS>>), Id("t")>>)>>),
     Stmts(GrowS(19)
           \o <<Cv("Copy", <<Cv("Slice", <<I(0), I(FullText + 1), TwiceS>>), Id("t")>>)>>),
     Stmts(<<Cv("Copy", <<T(<<"x">>), Id("v")>>), Cv("Print", <<PasteOf("v")>>)>>),
     Stmts(<<Cv("Copy", <<I(1), Id("x")>>), Cv("Copy", <<T(<<"a", "b">>), Id("x")>>),
             Cv("Copy", <<B(TRUE), F(1, 2), Id("y")>>)>>),
     Stmts(<<Cv("Paste", <<Id("x")>>)>>)}

PrintPrograms ==
    {Stmts(<<Cv("Print", <<Rep("a", 4000)>>), Cv("Print", <<Rep("a", 4000)>>), PrintOf(<<"b">>)>>),
     Stmts(<<PrintOf(<<"b">>), Cv("Print", <<Rep("a", 3999)>>), Cv("Print", <<Rep("a", 4000)>>)>>),
     Stmts(<<Cv("Print", <<T(<<"b">>), Rep("a", 4000), Rep("c", 4000), T(<<"d">>)>>)>>),
     Stmts(<<PrintOf(<<"b">>), Cv("Print", <<Rep("a", OUTPUT_BYTE_LIMIT - 7)>>)>>),
     Stmts(<<Cv("Print", <<Rep("a", OUTPUT_BYTE_LIMIT)>>)>>),
     Stmts(<<Cv("Print", <<Rep("a", OUTPUT_BYTE_LIMIT + 1)>>)>>),
     Stmts(<<Cv("Print", <<I(5), T(<<"t", "e", "x", "t">>)>>)>>),
     Stmts(<<Cv("Print", <<T(<<"h", "e", "l", "l", "o">>), Cv("NewLine", << >>),
                           T(<<"w", "o", "r", "l", "d">>)>>)>>),
     Stmts(<<Cv("Print", <<F(3, 2), B(TRUE), I(-12), Id("q"), F(2, 1)>>)>>),
     Stmts(<<Cv("Copy", <<I(1), T(<<"a">>), Id("l")>>), Cv("Print", <<PasteOf("l")>>)>>),
     Stmts(GrowS(9) \o <<Cv("Print", <<PasteOf("s")>>), Cv("Print", <<PasteOf("s")>>)>>),
     Stmts(GrowS(9) \o <<Cv("Print", <<I(12345)>>), Cv("Print", <<PasteOf("s")>>),
                        Cv("Print", <<Cv("Slice", <<I(0), I(3900), PasteOf("s")>>)>>)>>)}

\* l = [1, "a"]
ListSetup == <<Cv("Copy", <<I(1), T(<<"a">>), Id("l")>>)>>
SomeIdentifier == Cv("SelectRandom", <<Id("a"), Id("b")>>)
MaybeIdentifier == Cv("SelectRandom", <<Id("a"), I(1), T(<<"c">>)>>)

StorePrograms ==
    {Stmts(<<Cv("Copy", <<v, Id("x")>>)>>) :
         v \in {SomeIdentifier, MaybeIdentifier, Id("a"), Cv("IfThen", <<B(TRUE), Id("a")>>),
                Cv("IfThenElse", <<B(FALSE), I(1), Id("a")>>),
                Cv("Repeat", <<I(0), Cv("NewLine", << >>)>>), PasteOf("x")}}
    \cup {Stmts(<<Cv("Copy", <<I(1), v, Id("x")>>)>>) :
         v \in {SomeIdentifier, MaybeIdentifier, Cv("IfThen", <<B(FALSE), I(1)>>)}}
    \cup {Stmts(ListSetup \o <<Cv("Copy", <<Cv(op, <<v, I(i), PasteOf("l")>>), Id("m")>>)>>) :
         op \in {"Insert", "Replace"}, i \in {0, 2},
         v \in {SomeIdentifier, MaybeIdentifier, I(9), PasteOf("l"),
                Cv("IfThen", <<B(FALSE), I(1)>>)}}
    \cup {Stmts(ListSetup \o <<Cv("Copy", <<PasteOf("l"), I(3), Id("m")>>),
                               Cv("Copy", <<Cv("Index", <<I(0), PasteOf("m")>>), Id("x")>>)>>),
          Stmts(ListSetup \o <<Cv("Copy", <<Cv("Slice", <<I(0), I(1), PasteOf("l")>>), Id("m")>>),
                               Cv("Copy", <<Cv("Remove", <<I(0), PasteOf("m")>>), Id("e")>>),
                               Cv("Print", <<PasteOf("e")>>)>>),
          Stmts(ListSetup \o <<Cv("Copy", <<Cv("Swap", <<I(0), I(1), PasteOf("l")>>), Id("m")>>),
                               Cv("Print", <<Cv("Length", <<PasteOf("m")>>)>>)>>),
          Stmts(ListSetup \o <<Cv("Copy", <<Cv("Slice", <<I(0), I(1), PasteOf("l")>>), Id("m")>>),
                               Cv("Copy", <<Cv("Remove", <<I(0), PasteOf("m")>>), Id("e")>>),
                               Cv("Concatenate", <<PasteOf("e")>>)>>),
          Stmts(ListSetup \o <<Cv("Copy", <<PasteOf("l"), F(3, 2), B(TRUE), Id("m")>>),
                               Cv("Concatenate", <<PasteOf("m")>>),
                               Cv("Print", <<PasteOf("m")>>)>>),
          Stmts(<<Cv("Swap", <<I(0), I(1), T(<<"a">>)>>)>>),
          Stmts(<<Cv("Copy", <<Cv("Replace", <<T(<<"x", "y">>), I(1), T(<<"a", "b", "c">>)>>),
                               Id("x")>>)>>)}

\* the positions tried in a text or list of two elements
Positions == {-1, 0, 1, 2, 3}

\* index, remove, replace, insert, swap and slice at each position of the
\* text "ab" and of the list l
BoundsOn(setup, x, v) ==
    {Stmts(setup \o <<Cv(op, <<I(i), x>>)>>) : op \in {"Index", "Remove"}, i \in Positions}
    \cup {Stmts(setup \o <<Cv(op, <<v, I(i), x>>)>>) :
              op \in {"Replace", "Insert"}, i \in Positions}
    \cup {Stmts(setup \o <<Cv("Swap", <<I(i), I(j), x>>)>>) : i \in Positions, j \in {0, 2}}
    \cup {Stmts(setup \o <<Cv("Swap", <<I(1), I(i), x>>)>>) : i \in Positions}
    \cup {Stmts(setup \o <<Cv("Slice", <<I(i), I(j), x>>)>>) : i \in {-1, 0, 1, 2}, j \in Positions}

BoundsPrograms ==
    BoundsOn(<< >>, T(<<"a", "b">>), T(<<"x">>)) \cup BoundsOn(ListSetup, PasteOf("l"), I(9))

IfConds ==
    {B(TRUE), B(FALSE), Cv("Eq", <<I(1), I(1)>>), Cv("Gt", <<I(1), I(2)>>),
     PrintingCond(<<"c">>, << >>), PrintingCond(<<"c">>, <<"x">>)}
ThenBranches == {PrintOf(<<"t">>), Cv("Copy", <<I(1), Id("t")>>)}
ElseBranches == {PrintOf(<<"e">>), Cv("Copy", <<I(2), Id("e")>>)}

IfPrograms ==
    {Stmts(<<Cv("IfThen", <<c, t>>)>>) : c \in IfConds, t \in ThenBranches}
    \cup {Stmts(<<Cv("IfThenElse", <<c, t, e>>)>>) :
              c \in IfConds, t \in ThenBranches, e \in ElseBranches}
    \cup {Stmts(<<Cv("IfThenElse", <<Cv("Gt", <<I(1), I(2)>>), T(<<"b", "i", "g">>),
                                     T(<<"s", "m", "a", "l", "l">>)>>)>>),
          Stmts(<<Cv("IfThen", <<B(TRUE), T(<<"t">>)>>), Cv("IfThen", <<B(FALSE), T(<<"f">>)>>)>>),
          Stmts(<<Cv("IfThen", <<I(1), PrintOf(<<"t">>)>>)>>),
          Stmts(<<Cv("IfThenElse", <<T(<<"c">>), PrintOf(<<"t">>), PrintOf(<<"e">>)>>)>>),
          Stmts(<<Cv("IfThen", <<B(TRUE)>>)>>),
          Stmts(<<Cv("IfThenElse", <<B(TRUE), PrintOf(<<"t">>)>>)>>),
          Stmts(<<Cv("IfThenElse", <<Cv("Not", <<B(TRUE)>>),
                                     Cv("IfThen", <<B(TRUE), PrintOf(<<"t">>)>>),
                                     Cv("IfThenElse", <<B(FALSE), PrintOf(<<"u">>),
                                                        PrintOf(<<"e">>)>>)>>)>>)}

\* programs whose output and stores show the order of evaluation
OrderPrograms ==
    {Stmts(<<Cv("Concatenate", <<PrintOf(<<"a">>), PrintOf(<<"b">>)>>)>>),
     Stmts(<<PrintOf(<<"a">>), PrintOf(<<"b">>), PrintOf(<<"c">>)>>),
     Stmts(<<Cv("Print", <<Cv("Concatenate", <<PrintOf(<<"a">>), PrintOf(<<"b">>)>>),
                           T(<<"d">>), Cv("Concatenate", <<PrintOf(<<"c">>)>>)>>)>>),
     Stmts(<<Cv("Concatenate", <<Cv("Copy", <<I(1), Id("x")>>), Cv("Copy", <<I(2), Id("x")>>)>>),
             Cv("Print", <<PasteOf("x")>>)>>),
     Stmts(<<Cv("Copy", <<I(7), Id("n")>>),
             Cv("Concatenate", <<Cv("Print", <<PasteOf("n")>>), Cv("Copy", <<I(8), Id("n")>>),
                                 Cv("Print", <<PasteOf("n")>>)>>)>>),
     Stmts(<<Cv("Copy", <<I(1), Id("x")>>), Cv("Copy", <<I(2), Id("x")>>),
             Cv("Print", <<PasteOf("x")>>)>>),
     Stmts(<<Cv("And", <<Cv("Eq", <<Cv("Concatenate", <<PrintOf(<<"a">>)>>), T(<< >>)>>),
                         Cv("Not", <<PrintingCond(<<"b">>, << >>)>>),
                         Cv("Or", <<PrintingCond(<<"c">>, << >>), B(FALSE)>>)>>)>>),
     Stmts(<<Cv("Add", <<Cv("Length", <<Cv("Concatenate", <<PrintOf(<<"a">>), T(<<"x">>)>>)>>),
                         Cv("Length", <<Cv("Concatenate", <<PrintOf(<<"b">>)>>)>>),
                         Cv("Paste", <<Id("u")>>),
                         Cv("Length", <<Cv("Concatenate", <<PrintOf(<<"c">>)>>)>>)>>)>>)}

\* while(eq(1, 1), body...): the condition is never false
EndlessWhile(body) ==
    Stmts(<<Cv("Copy", <<I(0), Id("i")>>), Cv("While", <<Cv("Eq", <<I(1), I(1)>>)>> \o body)>>)

\* bodies that count their runs in i; the second one fails when the output
\* is full, the last one on its third run
EndlessBodies ==
    {<<Increment("i")>>,
     <<Increment("i"), PrintOf(<<"w">>)>>,
     <<Increment("i"), Cv("IfThen", <<Cv("Eq", <<PasteOf("i"), I(3)>>), PasteOf("u")>>)>>}

\* the loops that run up to the loop ceiling
LoopPrograms ==
    {CountingWhile(k) : k \in WhileCounts \cup {LOOP_LIMIT - 1, LOOP_LIMIT}}
    \cup {EndlessWhile(body) : body \in EndlessBodies}
    \cup {Stmts(<<Cv("Copy", <<I(0), Id("i")>>),
                  Cv("Repeat", <<I(n), Increment("i")>>)>>) : n \in 0..3}
    \cup {Stmts(<<Cv("Repeat", <<I(n), Cv("NewLine", << >>)>>)>>) :
              n \in {LOOP_LIMIT, LOOP_LIMIT + 1}}
    \cup {Stmts(<<Cv("While", <<Cv("Eq", <<I(1), I(1)>>), Cv("NewLine", << >>)>>)>>),
          Stmts(<<Cv("Repeat", <<I(LOOP_LIMIT), PrintOf(<<"a">>)>>)>>)}

Programs ==
    ArithPrograms \cup RepeatPrograms \cup WhilePrograms \cup MemPrograms
    \cup PrintPrograms \cup StorePrograms \cup IfPrograms \cup OrderPrograms
    \cup BoundsPrograms

\* the code of a later interpret call on the same Interpreter
FollowUps ==
    {Stmts(<<Cv("Print", <<PasteOf("s")>>)>>),
     Stmts(<<PrintOf(<<"b">>)>>),
     Stmts(<<PasteOf("x")>>),
     Stmts(<<Cv("Copy", <<I(3), Id("x")>>), Cv("Print", <<PasteOf("x")>>)>>)}

\* interpret calls made on one Interpreter
MaxCalls == 2
\* the draws offered to the random commands of one statement
MaxSeed == 3

RECURSIVE Mentions(_, _)
\* the command or one of its nested commands is of one of the types
Mentions(command, types) ==
    \/ command.command_type \in types
    \/ \E i \in 1..Len(command.args) :
           command.args[i].k = "Command" /\ Mentions(command.args[i].v, types)

\* only a statement with a random command depends on the draw, only one
\* that prints on the growth policy of Strings
Seeds(command) ==
    IF Mentions(command, {"SelectRandom", "GetSub"}) THEN 0..(MaxSeed - 1) ELSE {0}
Policies(command) == IF Mentions(command, {"Print"}) THEN {"exact", "amortized"} ELSE {"exact"}

\* Interpreter::new, beside a database that holds one of the tables and
\* with no request made
Start(databases) ==
    /\ db \in databases
    /\ lock = "free"
    /\ adding = "idle"
    /\ other = "idle"
    /\ has_db = FALSE
    /\ template_set = {}
    /\ pc = "idle"
    /\ input = << >>
    /\ interpolation = NoInterpolation
    /\ reply = NoReply
    /\ rest = << >>
    /\ embedded_output = << >>
    /\ code_stack = << >>
    /\ code_depth = 0
    /\ evaluated = << >>
    /\ tokens = << >>
    /\ token_index = 1
    /\ parser = NewParser
    /\ vars = VarMapNew
    /\ output = EmptyText
    /\ output_cap = 0
    /\ commands = << >>
    /\ status = "idle"
    /\ calls = 0
    /\ returned = EmptyText
    /\ stmt = NoCommand
    /\ result = NoResult
    /\ trace = << >>

Init == Start({EmptyDb})

\* interpret(code): let commands = parse(tokenize(code))?
Interpret(programs) ==
    /\ status \in {"idle", "err"}
    /\ calls < MaxCalls
    /\ \E code \in (IF calls = 0 THEN programs ELSE FollowUps) : commands' = code
    /\ status' = "running"
    /\ calls' = calls + 1
    /\ returned' = EmptyText
    /\ stmt' = NoCommand
    /\ result' = NoResult
    /\ trace' = << >>
    /\ UNCHANGED <<vars, output, output_cap, has_db, template_set, source, call, scan, syntax>>

\* one turn of `for command in commands { self.eval_command(command).await?; }`
Step ==
    /\ status = "running"
    /\ commands # << >>
    \* fdb.lock().await of GetSub returns when the lock is free
    /\ Mentions(Head(commands), {"GetSub"}) /\ has_db => lock = "free"
    /\ \E seed \in Seeds(Head(commands)), pol \in Policies(Head(commands)) :
        \E r \in {eval_command(Head(commands),
                                [vars |-> vars, output |-> output, output_cap |-> output_cap,
                                 seed |-> seed, pol |-> pol, trace |-> << >>,
                                 fdb |-> Option(has_db, db),
                                 template_set |-> template_set, lock |-> lock])} :
            /\ vars' = r.st.vars
            /\ output' = r.st.output
            /\ output_cap' = r.st.output_cap
            /\ trace' = r.st.trace
            /\ stmt' = Head(commands)
            /\ result' = [kind |-> r.kind, val |-> r.val, cmd |-> r.cmd, desc |-> r.desc]
            /\ commands' = IF r.kind = "ok" THEN Tail(commands) ELSE << >>
            /\ status' = IF r.kind = "ok" THEN "running" ELSE r.kind
            /\ template_set' = r.st.template_set
            /\ lock' = r.st.lock
    /\ UNCHANGED <<calls, returned, has_db, db, adding, other, call, scan, syntax>>

\* Ok(self.output.clone()): the text stays in the accumulator
ReturnKeepingOutput ==
    /\ status = "running"
    /\ commands = << >>
    /\ returned' = output
    /\ status' = "idle"
    /\ UNCHANGED <<vars, output, output_cap, commands, calls, stmt, result, trace>>
    /\ UNCHANGED <<has_db, template_set, source, call, scan, syntax>>

\* Ok(self.output.drain(..).collect()): the capacity stays
Return ==
    /\ status = "running"
    /\ commands = << >>
    /\ returned' = output
    /\ output' = EmptyText
    /\ status' = "idle"
    /\ UNCHANGED <<vars, output_cap, commands, calls, stmt, result, trace>>
    /\ UNCHANGED <<has_db, template_set, source, call, scan, syntax>>

Begin == Interpret(Programs)

Next == Begin \/ Step \/ Return

Spec == Init /\ [][Next]_pipeline

\* the same Interpreter given the programs with long loops
LoopBegin == Interpret(LoopPrograms)

LoopNext == LoopBegin \/ Step \/ Return

LoopSpec == Init /\ [][LoopNext]_pipeline

\* ---------------------------------------------------------------------
\* The pipeline (io_utils/input_interp.rs, interpret_embedded_code): one
\* interp_input request beside an add_subs request on the same database
\* ---------------------------------------------------------------------
\* the tables the database file may hold when the bot starts
Databases ==
    {Table({<<S("fruit"), <<S("apple")>>>>}),
     Table({<<S("a"), <<S("'b and ^c!")>>>>, <<S("b"), <<S("x")>>>>, <<S("c"), <<S("'b")>>>>}),
     Table({<<S("i"), <<S("'i")>>>>}),
     Table({<<S("p"), <<S("[^q]")>>>>, <<S("q"), <<S("'p")>>>>}),
     Table({<<S("n"), <<S("'N")>>>>}),
     Table({<<S("r"), <<S("x  y"), S("'r")>>>>, <<S("e"), << >>>>})}

\* the request texts with templates,
TemplateInputs ==
    {S("I love 'fruit"), S("'a"), S("'b 'b"), S("'c's\n ('b)"), S("'i"), S("a 'p"),
     S("'n"), S("'r 'r"), S("x'e. 'z"), S("'fruit'fruit  ok")}

\* with braces,
BraceInputs ==
    {S("a{print(\"b\")}c"), S("}"), S("a{"), S("a}b{"), S("{nl()}}"), S("{{nl()}"),
     S("{foo()}}"), S("{add(1)}{"), S("{print(\"a{print(\"b\")}\")}c"),
     S("{copy(1,x)}{print(paste(x))}"), S("{print(paste(x)){copy(2,x)}}"),
     S("x{print(\"a\")}{add(1)}"), S("{print(\"a\")div(1,0)}"), S("{({print(\"5\")})}"),
     S("{print(index(copy(\"\",x),0))}"),
     S("{copy(1,x)copy(\"b\",x)}{print(paste(x))print(paste(y))}"),
     S("{print(\"a\")print(\"b\")}{print(\"c\")}!")}

\* with code for the parser,
CodeInputs ==
    {S("{add(add(identifier,\"text\"),add(add(1,2),2))}"), S("{add(,1,2)}"), S("{add(1,,2)}"),
     S("{,}"), S("{add(1,2),}"), S("{)}"), S("{add(1,2))}"), S("{add(1,2}"),
     S("{add(1,sub(2}"), S("{add(sub(1,2)}"), S("{print(\"a\")print(1.5,true)}"),
     S("{add(1 2)}"), S("{print(\"a\"\"b\")}"), S("{add 1}"), S("{print(\"\\\"\")}"),
     S("{print(\"a\\b\\\"c\")}"), S("{print(\"x,(y)\\z\",\"\")}")}

\* and with get_sub
GetSubInputs ==
    {S("{get_sub(\"a\")}"), S("{get_sub(\"i\")}"), S("{print(get_sub(\"r\"))get_sub(\"r\")}"),
     S("{get_sub(\"b\")}"), S("{get_sub(1)}")}

Inputs == TemplateInputs \cup BraceInputs \cup CodeInputs \cup GetSubInputs

\* the substitutes an add_subs request adds: add_subs b 'a
Additions == {<<S("b"), <<S("'a")>>>>}

\* TemplateDatabase::insert_subs: INSERT OR IGNORE of the template and of
\* each substitute
insert_subs(fdb, template, substitutes) ==
    LET ids == find_template_id(fdb, template)
        name == IF ids = {} THEN template ELSE CHOOSE t \in ids : TRUE
        rows == IF ids = {} THEN << >> ELSE fdb[name]
        new == SelectSeq(substitutes,
                         LAMBDA sub : \A i \in DOMAIN rows : NoCase(rows[i]) # NoCase(sub))
    IN  [t \in DOMAIN fdb \cup {name} |-> IF t = name THEN rows \o new ELSE fdb[t]]

\* the draws offered to the lookups of the standalone pass
InputSeeds(text) == IF contains_template(text) THEN 0..(MaxSeed - 1) ELSE {0}

Failure(location, description) ==
    [kind |-> "err", text |-> << >>, error |-> [location |-> location, description |-> description]]

\* the bot starts with the database file as it finds it
PipeInit == Start(Databases)

\* add_subs: let mut db = ctx.data().funboy_db.lock().await
AddSubsLock ==
    /\ adding = "idle"
    /\ lock = "free"
    /\ lock' = "add_subs"
    /\ adding' = "locked"
    /\ UNCHANGED <<interpreter, has_db, template_set, db, other, call, scan, syntax>>

\* db.insert_subs(&template, Some(&subs)), and the guard dropped on return
AddSubsInsert ==
    /\ adding = "locked"
    /\ \E addition \in Additions : db' = insert_subs(db, addition[1], addition[2])
    /\ lock' = "free"
    /\ adding' = "done"
    /\ UNCHANGED <<interpreter, has_db, template_set, other, call, scan, syntax>>

\* interp_input(input, db) is called
CallWith(texts) ==
    /\ pc = "idle"
    /\ \E text \in texts : input' = text
    /\ pc' = "lock"
    /\ UNCHANGED <<interpreter, has_db, template_set, source, interpolation, reply, scan, syntax>>

Call == CallWith(Inputs)

\* let fdb = db.lock().await
Lock ==
    /\ pc = "lock"
    /\ lock = "free"
    /\ lock' = "interp_input"
    /\ pc' = "interp"
    /\ UNCHANGED <<interpreter, has_db, template_set, db, adding, other, input, interpolation, reply,
                   scan, syntax>>

\* let output = interpolator.interp(&input, ..), on a TextInterpolator::default()
Interpolate ==
    /\ pc = "interp"
    /\ \E seed \in InputSeeds(input) :
           interpolation' = interp(input, db, << >>, NewInterpolation({}, seed))
    /\ pc' = "drop"
    /\ UNCHANGED <<interpreter, has_db, template_set, source, input, reply, scan, syntax>>

\* drop(fdb); Interpreter::new_with_db(db); match output: the brace scan
\* starts, or Err(e.to_string()) is returned
Drop ==
    /\ pc = "drop"
    /\ lock' = "free"
    /\ has_db' = TRUE
    /\ template_set' = {}
    /\ vars' = VarMapNew
    /\ output' = EmptyText
    /\ output_cap' = 0
    /\ IF interpolation.kind = "ok"
       THEN /\ pc' = "scan"
            /\ rest' = interpolation.val
            /\ reply' = reply
       ELSE /\ pc' = "done"
            /\ rest' = rest
            /\ reply' = IF interpolation.kind = "err"
                        THEN Failure(<< >>, NestedTemplateLoopError)
                        ELSE [NoReply EXCEPT !.kind = "panic"]
    /\ embedded_output' = << >>
    /\ code_stack' = << >>
    /\ code_depth' = 0
    /\ UNCHANGED <<commands, status, calls, returned, stmt, result, trace, db, adding, other, input,
                   interpolation, evaluated, syntax>>

\* code_depth += 1 without the push
push_code_nothing(stack) == stack

\* code_stack.push(String::new())
push_code(stack) == Append(stack, << >>)

\* one turn of `for c in input.chars()`; at a '}' up to
\* `parse(tokenize(code))` of interpret, where tokenize has returned
Scan ==
    /\ pc = "scan"
    /\ rest # << >>
    /\ rest' = Tail(rest)
    /\ LET c == Head(rest)
       IN  IF c = "{"
           THEN /\ code_stack' = push_code(code_stack)
                /\ code_depth' = code_depth + 1
                /\ UNCHANGED <<pc, reply, embedded_output, evaluated, syntax>>
           ELSE IF c = "}"
           THEN /\ code_depth' = code_depth - 1
                /\ IF code_depth - 1 < 0
                   THEN /\ pc' = "done"
                        /\ reply' = Failure(<< >>, "Unmatched curly braces")
                        /\ UNCHANGED <<code_stack, evaluated, syntax>>
                   ELSE IF code_stack = << >>
                   \* match code_stack.pop() { .. None => {} }
                   THEN UNCHANGED <<pc, reply, code_stack, evaluated, syntax>>
                   ELSE /\ pc' = "parse"
                        /\ code_stack' = pop(code_stack)
                        /\ evaluated' = Append(evaluated, code_stack[Len(code_stack)])
                        /\ tokens' = tokenize(code_stack[Len(code_stack)])
                        /\ token_index' = 1
                        /\ parser' = NewParser
                        /\ reply' = reply
                /\ UNCHANGED embedded_output
           ELSE IF code_depth = 0
           THEN /\ embedded_output' = Append(embedded_output, c)
                /\ UNCHANGED <<pc, reply, code_stack, code_depth, evaluated, syntax>>
           ELSE /\ code_stack' = IF code_stack = << >>
                                  \* match code_stack.last_mut() { .. None => {} }
                                  THEN code_stack
                                  ELSE [code_stack EXCEPT ![Len(code_stack)] = Append(@, c)]
                /\ UNCHANGED <<pc, reply, embedded_output, code_depth, evaluated, syntax>>
    /\ UNCHANGED <<interpreter, has_db, template_set, source, input, interpolation>>

\* one turn of the loop of parse; a syntax error is returned through
\* interpret and interpret_embedded_code
ParseToken ==
    /\ pc = "parse"
    /\ token_index <= Len(tokens)
    /\ \E p \in {parse_token(parser, tokens, token_index)} :
           /\ parser' = p
           /\ pc' = IF p.err = NoError THEN pc ELSE "done"
           /\ reply' = IF p.err = NoError THEN reply
                       ELSE Failure(p.err.location, p.err.description)
    /\ token_index' = token_index + 1
    /\ UNCHANGED <<interpreter, has_db, template_set, source, input, interpolation, scan, tokens>>

\* the end of parse: the commands go to the loop of interpret
ParseEnd ==
    /\ pc = "parse"
    /\ token_index > Len(tokens)
    /\ \E p \in {parse_end(parser, tokens)} :
           /\ parser' = p
           /\ IF p.err = NoError
              THEN /\ pc' = "eval"
                   /\ commands' = p.commands
                   /\ status' = "running"
                   /\ reply' = reply
              ELSE /\ pc' = "done"
                   /\ reply' = Failure(p.err.location, p.err.description)
                   /\ UNCHANGED <<commands, status>>
    /\ calls' = calls + 1
    /\ returned' = EmptyText
    /\ stmt' = NoCommand
    /\ result' = NoResult
    /\ trace' = << >>
    /\ UNCHANGED <<vars, output, output_cap, has_db, template_set, source, input, interpolation,
                   scan, tokens, token_index>>

\* Ok(eval) that always goes to the output
SpliceToOutput ==
    /\ pc = "eval"
    /\ status = "idle"
    /\ embedded_output' = embedded_output \o Chars(returned)
    /\ pc' = "scan"
    /\ UNCHANGED <<interpreter, has_db, template_set, source, input, interpolation, reply,
                   rest, code_stack, code_depth, evaluated, syntax>>

\* Ok(eval) => the code on top of the stack, or the output, gets the text
Splice ==
    /\ pc = "eval"
    /\ status = "idle"
    /\ IF code_stack # << >>
       THEN /\ code_stack' = [code_stack EXCEPT ![Len(code_stack)] = @ \o Chars(returned)]
            /\ UNCHANGED embedded_output
       ELSE /\ embedded_output' = embedded_output \o Chars(returned)
            /\ UNCHANGED code_stack
    /\ pc' = "scan"
    /\ UNCHANGED <<interpreter, has_db, template_set, source, input, interpolation, reply,
                   rest, code_depth, evaluated, syntax>>

\* Err(e) returned beside the output made so far
FailWithOutput ==
    /\ pc = "eval"
    /\ status \in {"err", "panic"}
    /\ reply' = IF status = "err"
                THEN [Failure(S(result.cmd), result.desc) EXCEPT !.text = embedded_output]
                ELSE [NoReply EXCEPT !.kind = "panic"]
    /\ pc' = "done"
    /\ UNCHANGED <<interpreter, has_db, template_set, source, input, interpolation, scan, syntax>>

\* Err(e) => return Err(e)
Fail ==
    /\ pc = "eval"
    /\ status \in {"err", "panic"}
    /\ reply' = IF status = "err" THEN Failure(S(result.cmd), result.desc)
                ELSE [NoReply EXCEPT !.kind = "panic"]
    /\ pc' = "done"
    /\ UNCHANGED <<interpreter, has_db, template_set, source, input, interpolation, scan, syntax>>

\* the end of the scan without the check of the depth
FinishWithOpenBlock ==
    /\ pc = "scan"
    /\ rest = << >>
    /\ reply' = [kind |-> "ok", text |-> embedded_output, error |-> NoError]
    /\ pc' = "done"
    /\ UNCHANGED <<interpreter, has_db, template_set, source, input, interpolation, scan, syntax>>

\* after the loop: unmatched braces, or Ok(output)
Finish ==
    /\ pc = "scan"
    /\ rest = << >>
    /\ reply' = IF code_depth # 0 THEN Failure(<< >>, "Unmatched curly braces")
                ELSE [kind |-> "ok", text |-> embedded_output, error |-> NoError]
    /\ pc' = "done"
    /\ UNCHANGED <<interpreter, has_db, template_set, source, input, interpolation, scan, syntax>>

PipeNext ==
    \/ AddSubsLock \/ AddSubsInsert
    \/ Call \/ Lock \/ Interpolate \/ Drop \/ Scan \/ ParseToken \/ ParseEnd
    \/ Step \/ Return \/ Splice \/ Fail \/ Finish

PipeSpec == PipeInit /\ [][PipeNext]_pipeline

\* ---------------------------------------------------------------------
\* Two interp_input requests and an add_subs request under a fair
\* scheduler.  The second request is the same code reduced to its lock
\* operations: the lock of the standalone pass, and the lock of one GetSub
\* of its code, if it has one.
\* ---------------------------------------------------------------------
\* the request texts that reach each stage of the pipeline
FairInputs ==
    GetSubInputs
    \cup {S("I love 'fruit"), S("'i"), S("a{print(\"b\")}c"), S("a}b{"), S("{add(1 2)}"),
          S("{print(\"a\")div(1,0)}"), S("{copy(1,x)}{print(paste(x))}")}

FairCall == CallWith(FairInputs)

\* the second interp_input(input, db) is called
OtherCall ==
    /\ other = "idle"
    /\ other' = "lock"
    /\ UNCHANGED <<interpreter, has_db, template_set, db, lock, adding, call, scan, syntax>>

\* let fdb = db.lock().await
OtherLock ==
    /\ other = "lock"
    /\ lock = "free"
    /\ lock' = "other"
    /\ other' = "interp"
    /\ UNCHANGED <<interpreter, has_db, template_set, db, adding, call, scan, syntax>>

\* interpolator.interp(..) has returned: drop(fdb)
OtherDrop ==
    /\ other = "interp"
    /\ lock' = "free"
    /\ other' = "eval"
    /\ UNCHANGED <<interpreter, has_db, template_set, db, adding, call, scan, syntax>>

\* GetSub in its code: let fdb = fdb.lock().await
OtherGetSubLock ==
    /\ other = "eval"
    /\ lock = "free"
    /\ lock' = "other"
    /\ other' = "get_sub"
    /\ UNCHANGED <<interpreter, has_db, template_set, db, adding, call, scan, syntax>>

\* GetSub in its code: drop(fdb)
OtherGetSubDrop ==
    /\ other = "get_sub"
    /\ lock' = "free"
    /\ other' = "got"
    /\ UNCHANGED <<interpreter, has_db, template_set, db, adding, call, scan, syntax>>

\* it returns, with or without a GetSub in its code
OtherReturn ==
    /\ other \in {"eval", "got"}
    /\ other' = "done"
    /\ UNCHANGED <<interpreter, has_db, template_set, db, lock, adding, call, scan, syntax>>

\* the steps of the first request after its call,
Runs ==
    \/ Lock \/ Interpolate \/ Drop \/ Scan \/ ParseToken \/ ParseEnd
    \/ Step \/ Return \/ Splice \/ Fail \/ Finish

\* of the second, where OtherGetSubLock is taken only if its code has a
\* GetSub,
OtherRuns == OtherLock \/ OtherDrop \/ OtherGetSubDrop \/ OtherReturn

FairNext ==
    \/ AddSubsLock \/ AddSubsInsert
    \/ FairCall \/ Runs
    \/ OtherCall \/ OtherGetSubLock \/ OtherRuns

\* where the first request is: every step of Runs changes it
position == <<pc, rest, token_index, commands, status>>

\* ENABLED Runs, spelled out: the first request can take a step unless it
\* waits for the lock, at db.lock().await or at the fdb.lock().await of a
\* GetSub
CanRun ==
    \/ pc = "lock" /\ lock = "free"
    \/ pc \in {"interp", "drop", "scan", "parse"}
    \/ pc = "eval" /\ status \in {"idle", "err", "panic"}
    \/ pc = "eval" /\ status = "running"
          /\ ((commands # << >> /\ Mentions(Head(commands), {"GetSub"}) /\ has_db)
                 => lock = "free")

\* WF_position(Runs) with its ENABLED spelled out as CanRun
RunsFairly == []<>(~CanRun) \/ []<><<TRUE>>_position

\* the tokio scheduler polls every task that can run, and a task that is
\* woken for the Mutex gets it: a request that can take a step takes one
FairSpec ==
    /\ PipeInit
    /\ [][FairNext]_pipeline
    /\ RunsFairly
    /\ WF_pipeline(OtherRuns)
    /\ WF_pipeline(AddSubsInsert)


\* ---------------------------------------------------------------------
\* Properties
\* ---------------------------------------------------------------------
\* a step has evaluated stmt and left its result
Stepped == result.kind # "none"

\* the Interpreter as eval_command would find it now
Here ==
    [vars |-> vars, output |-> output, output_cap |-> output_cap,
     seed |-> 0, pol |-> "exact", trace |-> << >>,
     fdb |-> Option(has_db, db), template_set |-> template_set, lock |-> lock]

\* the argument reads the store at most: evaluating it again gives the
\* value the statement got
PureArg(arg) ==
    arg.k = "Command" => ~Mentions(arg.v, {"Print", "Copy", "SelectRandom", "Repeat", "While"})

\* what an argument of stmt evaluated to (None if it failed)
ValueOfArg(arg) ==
    IF arg.k = "Command"
    THEN LET r == eval_command(arg.v, Here) IN IF r.kind = "ok" THEN r.val ELSE NoneV
    ELSE arg

IsNumber(value) == value.k \in {"Int", "Float"}

\* stmt is one of the command types applied to two or more arguments that
\* are numeric literals or nested commands evaluating to numbers
NumericStmt(types) ==
    /\ Stepped
    /\ stmt.command_type \in types
    /\ Len(stmt.args) >= 2
    /\ \A i \in 1..Len(stmt.args) :
           /\ stmt.args[i].k \in {"Int", "Float", "Command"}
           /\ PureArg(stmt.args[i])
           /\ IsNumber(ValueOfArg(stmt.args[i]))

SomeFloatArg == \E i \in 1..Len(stmt.args) : ValueOfArg(stmt.args[i]).k = "Float"

ZeroDivisor == \E i \in 2..Len(stmt.args) : ValueOfArg(stmt.args[i]) = IntV(0)

\* C1: Add, Subtract, Multiply and Divide of two or more arguments that are
\* numeric literals or nested commands evaluating to numbers succeed (an
\* integer zero divisor aside), with a Float result if and only if some
\* evaluated argument is a Float and an Int result otherwise.
C1_PromotionByEvaluatedArgs ==
    (NumericStmt({"Add", "Subtract", "Multiply", "Divide"})
         /\ ~(stmt.command_type = "Divide" /\ ZeroDivisor))
    => /\ result.kind = "ok"
       /\ result.val.k = (IF SomeFloatArg THEN "Float" ELSE "Int")

\* the step that evaluates the next statement is the one being taken
Stepping == status = "running" /\ commands # << >> /\ stmt' = Head(commands)

\* the Repeat a statement consists of: the statement itself, or the branch
\* of an if_then on a literal condition, which does nothing before it
TheRepeat(command) ==
    IF command.command_type = "IfThen" /\ Len(command.args) = 2
       /\ command.args[1].k = "Bool" /\ command.args[2].k = "Command"
    THEN command.args[2].v
    ELSE command

\* the command is a Repeat of two or more arguments whose count is an
\* integer above the ceiling
RepeatsTooOften(command) ==
    /\ command.command_type = "Repeat"
    /\ Len(command.args) >= 2
    /\ PureArg(command.args[1])
    /\ ValueOfArg(command.args[1]).k = "Int"
    /\ ValueOfArg(command.args[1]).v > LOOP_LIMIT

\* the commands among the body arguments of a Repeat
BodyCommands(command) ==
    {command.args[i].v : i \in {j \in 2..Len(command.args) : command.args[j].k = "Command"}}

\* C2: a Repeat whose integer count is above LOOP_LIMIT returns the
\* repetition-limit error, eval_command is called on none of its body
\* arguments, and the output and the variable store are as they were before.
C2_RepeatOverCeilingRunsNothing ==
    [][(Stepping /\ RepeatsTooOften(TheRepeat(Head(commands))))
       => /\ result'.kind = "err"
          /\ result'.cmd = "repeat"
          /\ result'.desc = ERROR_REPEAT_LIMIT
          /\ \A k \in 1..Len(trace') :
                 trace'[k].command \notin BodyCommands(TheRepeat(Head(commands)))
          /\ output' = output
          /\ output_cap' = output_cap
          /\ vars' = vars]_interpreter

\* a Repeat above the ceiling was refused with text already printed and a
\* variable stored
C2_Witness ==
    /\ Stepped
    /\ RepeatsTooOften(TheRepeat(stmt))
    /\ BodyCommands(TheRepeat(stmt)) # {}
    /\ result.desc = ERROR_REPEAT_LIMIT
    /\ output # EmptyText
    /\ DOMAIN vars.data # {}

\* the command is the While of CountingWhile(k), whose condition holds on
\* exactly its first k checks
CountsTo(command, k) == <<command>> = SubSeq(CountingWhile(k), 2, 2)

\* the k of a While shaped as the one of CountingWhile (-1 for other commands)
CountOf(command) ==
    IF /\ command.command_type = "While"
       /\ Len(command.args) = 2
       /\ command.args[1].k = "Command"
       /\ command.args[1].v.command_type = "Lt"
       /\ Len(command.args[1].v.args) = 2
       /\ command.args[1].v.args[2].k = "Int"
       /\ command.args[1].v.args[2].v >= 0
       /\ CountsTo(command, command.args[1].v.args[2].v)
    THEN command.args[1].v.args[2].v
    ELSE -1

\* C3: a While whose condition holds on exactly its first k checks runs its
\* body k times and returns None for every k up to and including LOOP_LIMIT,
\* the counts Repeat accepts, and fails with the loop-limit error beyond it.
C3_WhileAcceptsWhatRepeatAccepts ==
    (Stepped /\ CountOf(stmt) >= 0)
    => IF CountOf(stmt) <= LOOP_LIMIT
       THEN /\ result.kind = "ok"
            /\ result.val = NoneV
            /\ vars.data["i"] = IntV(CountOf(stmt))
       ELSE /\ result.kind = "err"
            /\ result.desc = ERROR_LOOP_LIMIT

RECURSIVE SizeOfAll(_, _)
\* sum of get_size over the values stored under the names
SizeOfAll(vm, names) ==
    IF names = {} THEN 0
    ELSE LET n == CHOOSE x \in names : TRUE
         IN  get_size(vm.data[n]) + SizeOfAll(vm, names \ {n})

StoredBytes == SizeOfAll(vars, DOMAIN vars.data)

\* C4: the running byte total of the variable store is the sum of get_size
\* over the stored values and never exceeds VAR_MAP_BYTE_LIMIT.
C4_RunningTotalIsStoredBytes ==
    /\ vars.size = StoredBytes
    /\ StoredBytes <= VAR_MAP_BYTE_LIMIT

\* the name a Copy stores under
TargetOf(command) == command.args[Len(command.args)].v

\* what paste(name) returns from a store
PasteFrom(vm, name) ==
    LET r == eval_command(Command("Paste", <<IdentifierV(name)>>), [Here EXCEPT !.vars = vm])
    IN  [kind |-> r.kind, val |-> r.val, desc |-> r.desc]

\* C5: a Copy that insert_var rejects for the byte ceiling returns the
\* memory-limit error and leaves the variable store exactly as it was: no
\* entry added or overwritten, and Paste of the name returns what it did.
C5_RejectedCopyLeavesStore ==
    [][(Stepping /\ Head(commands).command_type = "Copy"
          /\ result'.desc = ERROR_MEMORY_LIMIT)
       => /\ result'.kind = "err"
          /\ vars' = vars
          /\ DOMAIN vars'.data = DOMAIN vars.data
          /\ PasteFrom(vars', TargetOf(Head(commands)))
                 = PasteFrom(vars, TargetOf(Head(commands)))]_interpreter

\* a Copy over an existing 4 MiB entry was rejected for the byte ceiling
C5_Witness ==
    /\ Stepped
    /\ stmt.command_type = "Copy"
    /\ result.desc = ERROR_MEMORY_LIMIT
    /\ TargetOf(stmt) \in DOMAIN vars.data
    /\ PasteFrom(vars, TargetOf(stmt)).kind = "ok"
    /\ get_size(vars.data[TargetOf(stmt)]) < VAR_MAP_BYTE_LIMIT

RECURSIVE Storable(_)
\* neither an Identifier nor a Command, nor a List holding one at any depth
Storable(value) ==
    /\ value.k \notin {"Identifier", "Command"}
    /\ value.k = "List" => \A i \in 1..Len(value.v) : Storable(value.v[i])

\* C6: no variable of the store holds an Identifier or a Command, nor a
\* List that contains one at any depth.
C6_StoreHoldsNoIdentifierOrCommand ==
    \A name \in DOMAIN vars.data : Storable(vars.data[name])

\* a List built by Insert or Replace from a random draw was stored
C6_Witness ==
    /\ Stepped
    /\ stmt.command_type = "Copy"
    /\ Mentions(stmt, {"SelectRandom"})
    /\ Mentions(stmt, {"Insert", "Replace"})
    /\ result.kind = "ok"
    /\ "m" \in DOMAIN vars.data
    /\ vars.data["m"].k = "List"

\* the Interpreter as the step being taken finds it, with its draws
Before(seed, pol) ==
    [vars |-> vars, output |-> output, output_cap |-> output_cap,
     seed |-> seed, pol |-> pol, trace |-> << >>,
     fdb |-> Option(has_db, db), template_set |-> template_set, lock |-> lock]

\* the command is an if_then or if_then_else whose branches are commands
IfOnCommands(command) ==
    \/ /\ command.command_type = "IfThen"
       /\ Len(command.args) = 2
       /\ command.args[2].k = "Command"
    \/ /\ command.command_type = "IfThenElse"
       /\ Len(command.args) = 3
       /\ command.args[2].k = "Command"
       /\ command.args[3].k = "Command"

\* the condition of an if, evaluated on its own
CondOf(command, st) ==
    IF command.args[1].k = "Command" THEN eval_command(command.args[1].v, st)
    ELSE Ok(command.args[1], st)

\* the branches an if takes and leaves for a condition value (at most one each)
Taken(command, b) ==
    IF b THEN {command.args[2].v}
    ELSE IF command.command_type = "IfThenElse" THEN {command.args[3].v} ELSE {}
NotTaken(command, b) ==
    IF ~b THEN {command.args[2].v}
    ELSE IF command.command_type = "IfThenElse" THEN {command.args[3].v} ELSE {}

\* the condition alone, then the taken branch alone, one after the other
CondThenTaken(command, st) ==
    LET c == CondOf(command, st)
    IN  IF c.kind # "ok" \/ c.val.k # "Bool" THEN [c EXCEPT !.kind = "err", !.val = NoneV]
        ELSE IF Taken(command, c.val.v) = {} THEN Ok(NoneV, c.st)
        ELSE eval_command(CHOOSE t \in Taken(command, c.val.v) : TRUE, c.st)

RECURSIVE Occurs(_, _)
\* inner is the command or one of the commands nested in it
Occurs(command, inner) ==
    \/ command = inner
    \/ \E i \in 1..Len(command.args) :
           command.args[i].k = "Command" /\ Occurs(command.args[i].v, inner)

\* positions of the trace where eval_command was called on the command
CallsOf(tr, command) ==
    {k \in 1..Len(tr) : tr[k].ev = "call" /\ tr[k].command = command}
ReturnsOf(tr, command) ==
    {k \in 1..Len(tr) : tr[k].ev = "ret" /\ tr[k].command = command}

\* the order of the calls of an if whose condition gave the Bool b: the
\* condition first, the taken branch once and after it, the other never
IfCallOrder(command, b, tr) ==
    /\ command.args[1].k = "Command" =>
           /\ CallsOf(tr, command.args[1].v) # {}
           /\ 2 \in CallsOf(tr, command.args[1].v)
           /\ \A t \in Taken(command, b) : \A k \in CallsOf(tr, t) :
                  \E j \in ReturnsOf(tr, command.args[1].v) : j < k
    /\ \A t \in Taken(command, b) :
           (command.args[1].k = "Command" => ~Occurs(command.args[1].v, t))
           => Cardinality(CallsOf(tr, t)) = 1
    /\ \A n \in NotTaken(command, b) :
           (/\ \A t \in Taken(command, b) : ~Occurs(t, n)
            /\ command.args[1].k = "Command" => ~Occurs(command.args[1].v, n))
           => CallsOf(tr, n) = {}

\* C7: an if_then or if_then_else on command branches evaluates its
\* condition first, then the taken branch exactly once and the other
\* branch never: the step leaves the result, the output and the store that
\* the condition followed by the taken branch alone leave, and an if_then on
\* a false condition evaluates no branch and returns None.
C7_OnlyTakenBranchRuns ==
    [][(Stepping /\ IfOnCommands(Head(commands)))
       => \E seed \in Seeds(Head(commands)), pol \in Policies(Head(commands)) :
            LET c == CondOf(Head(commands), Before(seed, pol))
                e == CondThenTaken(Head(commands), Before(seed, pol))
            IN  /\ result'.kind = e.kind
                /\ result'.val = e.val
                /\ output' = e.st.output
                /\ vars' = e.st.vars
                /\ (c.kind = "ok" /\ c.val.k = "Bool" /\ Len(trace') < TraceMax)
                       => IfCallOrder(Head(commands), c.val.v, trace')]_interpreter

\* an if_then_else whose condition printed "c" and came out false printed
\* "e" from its else branch and nothing from its then branch
C7_Witness ==
    /\ Stepped
    /\ IfOnCommands(stmt)
    /\ stmt.command_type = "IfThenElse"
    /\ stmt.args[1].k = "Command"
    /\ stmt.args[2].v = PrintOf(<<"t">>).v
    /\ stmt.args[3].v = PrintOf(<<"e">>).v
    /\ result.kind = "ok"
    /\ output = Str(<<"c", "e">>)

RECURSIVE TextOnly(_)
\* a Print or Concatenate of text literals and of commands of the same kind
TextOnly(command) ==
    /\ command.command_type \in {"Print", "Concatenate"}
    /\ \A i \in 1..Len(command.args) :
           \/ command.args[i].k = "Text"
           \/ command.args[i].k = "Command" /\ TextOnly(command.args[i].v)

RECURSIVE ValueText(_)
RECURSIVE ArgTexts(_, _)
\* the texts of the arguments from the i-th on, joined in their order
ArgTexts(command, i) ==
    IF i > Len(command.args) THEN EmptyText
    ELSE TextCat(IF command.args[i].k = "Command" THEN ValueText(command.args[i].v)
                 ELSE command.args[i].v,
                 ArgTexts(command, i + 1))

\* the text a TextOnly command returns: Print returns None, which reads ""
ValueText(command) ==
    IF command.command_type = "Print" THEN EmptyText ELSE ArgTexts(command, 1)

RECURSIVE Emitted(_)
RECURSIVE EmittedByArgs(_, _)
\* what the arguments from the i-th on print, the leftmost first
EmittedByArgs(command, i) ==
    IF i > Len(command.args) THEN EmptyText
    ELSE TextCat(IF command.args[i].k = "Command" THEN Emitted(command.args[i].v)
                 ELSE EmptyText,
                 EmittedByArgs(command, i + 1))

\* what a TextOnly command prints: its arguments' prints, then its own
Emitted(command) ==
    TextCat(EmittedByArgs(command, 1),
            IF command.command_type = "Print" THEN ArgTexts(command, 1) ELSE EmptyText)

RECURSIVE CopiesOnly(_)
\* a two-argument Copy of a literal, or a Concatenate of such commands
CopiesOnly(command) ==
    \/ /\ command.command_type = "Copy"
       /\ Len(command.args) = 2
       /\ command.args[1].k \in {"Text", "Int", "Float", "Bool"}
       /\ command.args[2].k = "Identifier"
    \/ /\ command.command_type = "Concatenate"
       /\ \A i \in 1..Len(command.args) :
              command.args[i].k = "Command" /\ CopiesOnly(command.args[i].v)

RECURSIVE Written(_, _)
RECURSIVE WrittenByArgs(_, _, _)
\* the store after the writes of the arguments from the i-th on, in order
WrittenByArgs(command, i, data) ==
    IF i > Len(command.args) THEN data
    ELSE WrittenByArgs(command, i + 1, Written(command.args[i].v, data))

\* the store after the writes of a CopiesOnly command, the later write of a
\* name replacing the earlier
Written(command, data) ==
    IF command.command_type = "Copy"
    THEN [n \in DOMAIN data \cup {command.args[2].v} |->
              IF n = command.args[2].v THEN command.args[1] ELSE data[n]]
    ELSE WrittenByArgs(command, 1, data)

\* no argument of the command or of a nested command is left unevaluated
AllEager(command) == ~Mentions(command, {"IfThen", "IfThenElse", "Repeat", "While"})

RECURSIVE PreOrder(_)
RECURSIVE PreOrderOfArgs(_, _)
PreOrderOfArgs(command, i) ==
    IF i > Len(command.args) THEN << >>
    ELSE (IF command.args[i].k = "Command" THEN PreOrder(command.args[i].v) ELSE << >>)
         \o PreOrderOfArgs(command, i + 1)

\* the calls and returns of an AllEager command that succeeds: each argument
\* from call to return before the next, and all before the command returns
PreOrder(command) ==
    <<[ev |-> "call", command |-> command]>> \o PreOrderOfArgs(command, 1)
        \o <<[ev |-> "ret", command |-> command]>>

CallsAndReturns(tr) == [k \in 1..Len(tr) |-> [ev |-> tr[k].ev, command |-> tr[k].command]]

\* concat(print(paste(n)), copy(8, n), print(paste(n)))
ReadWriteRead ==
    Command("Concatenate", <<Cv("Print", <<PasteOf("n")>>), Cv("Copy", <<I(8), Id("n")>>),
                             Cv("Print", <<PasteOf("n")>>)>>)

\* C8: statements are evaluated in source order, and the eagerly evaluated
\* arguments of a command strictly left to right, each from call to return
\* before the next starts and all before the command acts, so that the
\* output receives Print text and the store Copy writes in that order.
C8_LeftToRightInSourceOrder ==
    [][(status = "running" /\ commands # << >>)
       => /\ stmt' = Head(commands)
          /\ commands' = IF result'.kind = "ok" THEN Tail(commands) ELSE << >>
          /\ (AllEager(Head(commands)) /\ result'.kind = "ok" /\ Len(trace') < TraceMax)
                 => CallsAndReturns(trace') = PreOrder(Head(commands))
          /\ (TextOnly(Head(commands)) /\ result'.kind = "ok")
                 => output' = TextCat(output, Emitted(Head(commands)))
          /\ (CopiesOnly(Head(commands)) /\ result'.kind = "ok")
                 => vars'.data = Written(Head(commands), vars.data)
          /\ (Head(commands) = ReadWriteRead /\ get_var(vars, "n").value = IntV(7))
                 => /\ output' = TextCat(output, Str(<<"7", "8">>))
                    /\ get_var(vars', "n").value = IntV(8)]_interpreter

\* concat(print("a"), print("b")) has emitted "ab"
C8_Witness ==
    /\ Stepped
    /\ stmt = Command("Concatenate", <<PrintOf(<<"a">>), PrintOf(<<"b">>)>>)
    /\ result.kind = "ok"
    /\ output = Str(<<"a", "b">>)

\* the command is a Print whose arguments are literals or read the store
PrintOfValues(command) ==
    /\ command.command_type = "Print"
    /\ \A i \in 1..Len(command.args) :
           /\ PureArg(command.args[i])
           /\ command.args[i].k = "Command" =>
                  eval_command(command.args[i].v, Here).kind = "ok"
           /\ ~to_string_panics(ValueOfArg(command.args[i]))

\* the strings of the first j arguments of a PrintOfValues, joined
Printed(command, j) ==
    ConcatAll([i \in 1..j |-> ValueOfArg(command.args[i])])

\* C9: the output never holds more than OUTPUT_BYTE_LIMIT bytes; a Print
\* whose arguments do not all fit returns the output-byte-limit error, and a
\* Print that returns it has appended whole arguments only: those before the
\* one refused, and nothing of that one.
C9_OutputWithinCeilingNoTruncation ==
    [][/\ TextLen(output') <= OUTPUT_BYTE_LIMIT
       /\ (Stepping /\ PrintOfValues(Head(commands)))
          => LET n == Len(Head(commands).args)
             IN  /\ TextLen(output) + TextLen(Printed(Head(commands), n)) > OUTPUT_BYTE_LIMIT
                        => (result'.kind = "err" /\ result'.desc = ERROR_OUTPUT_LIMIT)
                 /\ result'.kind = "ok" => output' = TextCat(output, Printed(Head(commands), n))
                 /\ result'.desc = ERROR_OUTPUT_LIMIT
                        => \E j \in 0..(n - 1) :
                               output' = TextCat(output, Printed(Head(commands), j))]_interpreter

\* a Print of four arguments was refused at its third: "b" and 4000 bytes
\* are written, nothing of the third or the fourth
C9_Witness ==
    /\ Stepped
    /\ stmt.command_type = "Print"
    /\ Len(stmt.args) = 4
    /\ result.desc = ERROR_OUTPUT_LIMIT
    /\ output = TextCat(Str(<<"b">>), << <<"a", 4000>> >>)

\* C10: Divide and Mod of numeric literals with the Int 0 after the first
\* argument return the division-by-zero error and do not panic.
C10_IntegerZeroDivisorIsError ==
    (/\ NumericStmt({"Divide", "Mod"})
     /\ \A i \in 1..Len(stmt.args) : stmt.args[i].k \in {"Int", "Float"}
     /\ ZeroDivisor)
    => /\ result.kind = "err"
       /\ result.desc = ERROR_ZERO_DIVISION

\* the standalone pass of the request has run
Interpolated == interpolation.kind # "none"

\* C11: interp returns NestedTemplateLoopError exactly when a template name
\* that has a substitute is requested while the same name is still being
\* resolved higher up the recursion chain; a name that has finished
\* resolving and is requested again later in the same call does not fail
\* for that.
C11_LoopErrorIffNameStillResolving ==
    Interpolated =>
        /\ interpolation.kind = "err" <=> interpolation.s.cycle
        /\ interpolation.s.again /\ ~interpolation.s.cycle => interpolation.kind = "ok"

\* a name was requested a second time after it had resolved, and the call
\* succeeded
C11_Witness ==
    /\ interpolation.kind = "ok"
    /\ interpolation.s.again
    /\ interpolation.s.deepest >= 1

\* the template names of the words of a text
NamesIn(text) ==
    {extract_template(item).template : item \in Range(split_whitespace(text))}

\* the distinct names the lookups of the request can be asked for (those of
\* the input and of every stored substitute) that have a substitute
NamesWithSubstitute ==
    LET stored == UNION {{NamesIn(db[t][i]) : i \in DOMAIN db[t]} : t \in DOMAIN db}
    IN  {name \in NamesIn(input) \cup UNION stored : get_random_subs(db, name, 0).some}

\* C12: interp comes to an end for every input and every table, cyclic ones
\* included: the nesting of recursive interp calls never exceeds the number
\* of distinct names that have a substitute, and a cyclic reference ends
\* with NestedTemplateLoopError.
C12_InterpTerminatesWithinNames ==
    Interpolated =>
        /\ interpolation.kind \in {"ok", "err"}
        /\ interpolation.s.deepest <= Cardinality(NamesWithSubstitute)
        /\ interpolation.s.cycle => interpolation.kind = "err"

\* a cycle through two names reached the bound and ended with the error
C12_Witness ==
    /\ interpolation.kind = "err"
    /\ interpolation.s.cycle
    /\ interpolation.s.deepest = 2
    /\ Cardinality(NamesWithSubstitute) = 2

\* every template of the table has one substitute at most: the lookups do
\* not depend on the draw
SingleSubstitutes == \A t \in DOMAIN db : Len(db[t]) <= 1

RECURSIVE JoinWords(_)
\* the words with one space between them
JoinWords(words) ==
    IF words = << >> THEN << >>
    ELSE IF Len(words) = 1 THEN words[1]
    ELSE words[1] \o <<" ">> \o JoinWords(Tail(words))

RECURSIVE Rendered(_, _)
\* what the claim has interp emit for a text: each word with a substitute
\* as prefix + R + suffix, where R is the substitute, itself rendered when
\* it holds a marker; each other word as it is
Rendered(text, nesting) ==
    LET words == split_whitespace(text)
        Word(item) ==
            LET split == extract_template(item)
                found == get_random_subs(db, split.template, 0)
            IN  IF ~found.some \/ nesting = 0 THEN item
                ELSE split.prefix
                     \o (IF \E i \in DOMAIN found.sub : found.sub[i] \in TEMPLATE_HEADERS
                         THEN Rendered(found.sub, nesting - 1)
                         ELSE found.sub)
                     \o split.suffix
    IN  JoinWords([i \in DOMAIN words |-> Word(words[i])])

\* C13: for every whitespace-separated word whose template name has a
\* substitute interp emits prefix + R + suffix, R being the substitute,
\* itself interpolated when it contains a marker; a word without a
\* substitute is emitted unchanged; "I love 'fruit" with fruit -> apple
\* gives "I love apple".  (Stated where the table was read, before the
\* lock is dropped, for tables whose lookups do not depend on the draw.)
C13_WordsSubstitutedInPlace ==
    (pc = "drop" /\ interpolation.kind = "ok" /\ SingleSubstitutes) =>
        /\ interpolation.val = Rendered(input, MaxDepth + 1)
        /\ (input = S("I love 'fruit") /\ S("fruit") \in DOMAIN db /\ db[S("fruit")] = <<S("apple")>>)
               => interpolation.val = S("I love apple")

\* a nested substitute between a prefix and a suffix, beside a word that
\* keeps its suffix after the closing marker
C13_Witness ==
    /\ pc = "drop"
    /\ SingleSubstitutes
    /\ input = S("'c's\n ('b)")
    /\ interpolation.kind = "ok"
    /\ interpolation.val = S("xs (x)")

\* the text handed to interpret_embedded_code
Scanned == interpolation.val

\* '{' minus '}' among the first i characters of the scanned text
BraceDepth(i) ==
    Cardinality({j \in 1..i : Scanned[j] = "{"}) - Cardinality({j \in 1..i : Scanned[j] = "}"})

\* a '}' with no earlier unclosed '{', or a '{' still open at the end
Unbalanced ==
    \/ \E i \in DOMAIN Scanned : BraceDepth(i) < 0
    \/ BraceDepth(Len(Scanned)) > 0

\* interpret_embedded_code has returned
ScanReturned == pc = "done" /\ interpolation.kind = "ok"

UnmatchedBraces == Failure(<< >>, "Unmatched curly braces")

\* the interpret call of a block returned an error or panicked
BlockFailed == parser.err # NoError \/ status \in {"err", "panic"}

\* C14 as stated: every input with a '}' that has no earlier unclosed '{',
\* or that ends with a '{' still open, fails with the unmatched-braces
\* error.
C14_UnbalancedAlwaysUnmatchedError ==
    (ScanReturned /\ Unbalanced) => reply = UnmatchedBraces

\* C14, amended: such an input always fails, with the unmatched-braces
\* error when every block closed before the offending point evaluated, and
\* otherwise with the failure of the first block that did not; a scan that
\* reaches the end of a balanced input ends with the depth counter at zero.
C14_UnbalancedFailsUnlessBlockFailedFirst ==
    /\ (ScanReturned /\ Unbalanced) =>
           /\ reply.kind # "ok"
           /\ ~BlockFailed => reply = UnmatchedBraces
           /\ BlockFailed => reply # UnmatchedBraces
    /\ (pc \in {"scan", "done"} /\ interpolation.kind = "ok" /\ ~Unbalanced /\ rest = << >>
            /\ (pc = "done" => reply.kind = "ok"))
           => code_depth = 0

\* a block that fails before the unmatched '}' is read
C14_Witness ==
    /\ ScanReturned
    /\ Unbalanced
    /\ BlockFailed
    /\ reply.kind = "err"
    /\ reply.error.description # "Unmatched curly braces"

\* one character is read by the scan
Reads(c) == pc = "scan" /\ rest # << >> /\ Head(rest) = c /\ rest' = Tail(rest)

ReadsPlain == \E c \in Range(rest) : c \notin {"{", "}"} /\ Reads(c)

\* the result of a block comes back to the scan
Returns == pc = "eval" /\ pc' = "scan"

\* what a step of the scan does
ScanInOrder ==
    \* a character at depth 0 goes to the end of the output, any other
    \* character read leaves the output alone
    /\ (ReadsPlain /\ code_depth = 0) => embedded_output' = Append(embedded_output, Head(rest))
    /\ (ReadsPlain /\ code_depth > 0) =>
           /\ embedded_output' = embedded_output
           /\ code_stack' = [code_stack EXCEPT ![Len(code_stack)] = Append(@, Head(rest))]
    /\ (Reads("{") \/ Reads("}")) => embedded_output' = embedded_output
    \* a block is evaluated when its closing brace is read, and only then:
    \* innermost first, the enclosing blocks still open
    /\ (Reads("}") /\ code_depth >= 1) =>
           /\ evaluated' = Append(evaluated, code_stack[Len(code_stack)])
           /\ tokens' = tokenize(code_stack[Len(code_stack)])
           /\ pc' = "parse"
           /\ code_stack' = SubSeq(code_stack, 1, Len(code_stack) - 1)
           /\ Len(code_stack') = code_depth'
    /\ evaluated' # evaluated => Reads("}")
    \* the result of an inner block goes to the end of the code of the
    \* enclosing block, that of a block closed at depth 0 to the output
    /\ (Returns /\ code_depth > 0) =>
           /\ code_stack' = [code_stack EXCEPT ![Len(code_stack)] = @ \o Chars(returned)]
           /\ embedded_output' = embedded_output
    /\ (Returns /\ code_depth = 0) =>
           /\ embedded_output' = embedded_output \o Chars(returned)
           /\ code_stack' = code_stack
    /\ (embedded_output' # embedded_output /\ pc # "drop") =>
           code_depth = 0 /\ (ReadsPlain \/ Returns)

\* C15: the characters at depth 0 go to the output in the order of the
\* input; each block is evaluated when its closing '}' is read, an inner
\* block before the block that encloses it; the result of an inner block
\* is appended to the code buffer of the enclosing block, and only the
\* results of blocks closed at depth 0 are appended to the output.
C15_BlocksEvaluatedInnermostFirst == [][ScanInOrder]_pipeline

\* the block inside the text of a print was evaluated first and its result
\* became part of the code of the outer block
C15_Witness ==
    /\ input = S("{print(\"a{print(\"b\")}\")}c")
    /\ evaluated = <<S("print(\"b\")"), S("print(\"ab\")")>>
    /\ reply.kind = "ok"
    /\ reply.text = S("abc")

\* interp_input has returned
Done == pc = "done"

\* what interp_input returns is the error of the stage that failed, alone
OnlyTheError ==
    Done =>
        /\ reply.kind = "err" => reply.text = << >>
        /\ interpolation.kind = "err" =>
               /\ reply = Failure(<< >>, NestedTemplateLoopError)
               /\ evaluated = << >>
        /\ (interpolation.kind = "ok" /\ parser.err # NoError) =>
               reply = Failure(parser.err.location, parser.err.description)
        /\ (interpolation.kind = "ok" /\ status = "err") =>
               reply = Failure(S(result.cmd), result.desc)
        /\ (interpolation.kind = "ok" /\ ~BlockFailed /\ Unbalanced) => reply = UnmatchedBraces
        /\ reply.kind = "ok" =>
               /\ interpolation.kind = "ok"
               /\ ~BlockFailed
               /\ ~Unbalanced
               /\ reply.text = embedded_output

\* a failure ends the request, and no stage runs a second time
NothingRetried ==
    /\ Done => UNCHANGED <<interpreter, has_db, template_set, call, scan, syntax>>
    /\ (reply.kind = "none" /\ reply'.kind # "none") => pc' = "done"
    /\ pc' \in {"lock", "interp"} => pc \in {"idle", "lock"}
    /\ pc' = "drop" => pc = "interp"
    /\ Len(evaluated') >= Len(evaluated)

\* C16: when the interpolation, the brace scan, the parsing or the
\* evaluation fails, interp_input returns that error only: none of the
\* text produced before the failure is returned, and nothing is retried.
C16_FailureReturnsOnlyTheError == []OnlyTheError /\ [][NothingRetried]_pipeline

\* a block fails after text and the result of an earlier block went to the
\* output
C16_Witness ==
    /\ Done
    /\ status = "err"
    /\ Len(evaluated) = 2
    /\ embedded_output = S("xa")
    /\ reply = Failure(S(result.cmd), result.desc)

\* the lock and unlock entries of the trace come in adjacent pairs: no
\* eval_command call starts or returns between them
LockedForTheLookupOnly ==
    /\ \A i \in DOMAIN trace :
           trace[i].ev = "lock" => IF i < Len(trace) THEN trace[i + 1].ev = "unlock"
                                   ELSE Len(trace) = TraceMax
    /\ \A i \in DOMAIN trace : trace[i].ev = "unlock" => i > 1 /\ trace[i - 1].ev = "lock"

\* C17: the lock of the substitution source is never held while FSL code is
\* tokenized, parsed or evaluated: interp_input has released it after the
\* standalone pass when the brace scan starts, and GetSub releases it
\* before it returns, when the interpolation succeeded and when it ended
\* with NestedTemplateLoopError.
C17_LockNotHeldAcrossEvaluation ==
    /\ lock = "interp_input" => pc \in {"interp", "drop"}
    /\ pc \in {"scan", "parse", "eval", "done"} => lock \in {"free", "add_subs"}
    /\ lock # "get_sub"
    /\ LockedForTheLookupOnly

\* a get_sub of a template that refers to itself has returned the error
\* and left the lock free
C17_Witness ==
    /\ pc = "eval"
    /\ Stepped
    /\ Mentions(stmt, {"GetSub"})
    /\ result.kind = "err"
    /\ result.desc = NestedTemplateLoopError
    /\ \E i \in DOMAIN trace : trace[i].ev = "unlock"
    /\ lock = "free"

\* parse has returned Ok(commands) for the tokens of a block
Parsed == pc = "eval" /\ parser.err = NoError

Open(command_type) == [k |-> "Open", v |-> command_type]
Close == [k |-> "Close", v |-> 0]

RECURSIVE SourceItems(_)
\* the commands, their arguments and the closing parentheses as the tokens
\* have them, in source order (commas and quotes carry no value)
SourceItems(ts) ==
    IF ts = << >> THEN << >>
    ELSE LET token == Head(ts)
             items == CASE token.token_type = "Command" ->
                               <<Open(from_str(token.value).command_type)>>
                        [] token.token_type = "ClosingParenthesis" -> <<Close>>
                        [] token.token_type = "Text" -> <<TextV(Str(token.value))>>
                        [] token.token_type = "Number" -> <<NumberValue(token.value)>>
                        [] token.token_type = "Identifier" -> <<IdentifierV(Name(token.value))>>
                        [] token.token_type = "Keyword" -> <<BoolV(token.value = KEYWORD_TRUE)>>
                        [] OTHER -> << >>
         IN  items \o SourceItems(Tail(ts))

RECURSIVE TreeItems(_)
\* the same listing read off the parsed commands: a command, its arguments
\* from first to last, its end
TreeItems(values) ==
    IF values = << >> THEN << >>
    ELSE LET value == Head(values)
         IN  (IF value.k = "Command"
              THEN <<Open(value.v.command_type)>> \o TreeItems(value.v.args) \o <<Close>>
              ELSE <<value>>)
             \o TreeItems(Tail(values))

SameItems(a, b) ==
    /\ Len(a) = Len(b)
    /\ \A i \in DOMAIN a : a[i].k = b[i].k /\ a[i].v = b[i].v

\* the commands as values, to list them as arguments are listed
AsValues(cmds) == [i \in DOMAIN cmds |-> CommandV(cmds[i])]

NestedAdd ==
    Command("Add",
            <<CommandV(Command("Add", <<IdentifierV("identifier"), TextV(Str(S("text")))>>)),
              CommandV(Command("Add", <<CommandV(Command("Add", <<IntV(1), IntV(2)>>)),
                                        IntV(2)>>))>>)

\* C18: parse keeps the order and the nesting of the source: the commands
\* and arguments of the tree, listed from the outside in and from first to
\* last, are those of the tokens in their order, each command closed where
\* its closing parenthesis stands; add(add(identifier, "text"),
\* add(add(1, 2), 2)) gives that tree.
C18_ParsePreservesOrderAndNesting ==
    Parsed =>
        /\ SameItems(TreeItems(AsValues(parser.commands)), SourceItems(tokens))
        /\ tokens = tokenize(S("add(add(identifier,\"text\"),add(add(1,2),2))"))
               => parser.commands = <<NestedAdd>>

\* the nested add of the example has been parsed
C18_Witness ==
    /\ Parsed
    /\ evaluated = <<S("add(add(identifier,\"text\"),add(add(1,2),2))")>>
    /\ commands = <<NestedAdd>>

\* the tokens of the type among tokens[from..to]
CountOfType(token_type, from, to) ==
    Cardinality({j \in from..to : tokens[j].token_type = token_type})

\* commands opened minus parentheses closed among tokens[from..to]
OpenDepth(from, to) ==
    CountOfType("Command", from, to) - CountOfType("ClosingParenthesis", from, to)

\* the last command of the tokens that no closing parenthesis closes
InnermostUnclosed ==
    CHOOSE j \in DOMAIN tokens :
        /\ tokens[j].token_type = "Command"
        /\ \A k \in j..Len(tokens) : OpenDepth(j, k) >= 1
        /\ \A i \in (j + 1)..Len(tokens) :
               tokens[i].token_type = "Command" => \E k \in i..Len(tokens) : OpenDepth(i, k) < 1

\* while parse runs, the frames on the stack are the commands read less
\* the closing parentheses read
StackIsOpenDepth ==
    pc = "parse" => Len(parser.command_stack) = OpenDepth(1, token_index - 1)

\* parse reads the token at token_index / comes to the end of the tokens
ReadsToken == pc = "parse" /\ token_index <= Len(tokens) /\ token_index' = token_index + 1
EndsParse == pc = "parse" /\ token_index > Len(tokens) /\ pc' # "parse"

FramesClosed ==
    /\ (ReadsToken /\ tokens[token_index].token_type = "ClosingParenthesis"
            /\ parser.command_stack = << >>) =>
           /\ pc' = "done"
           /\ reply' = Failure(SyntaxError(tokens, token_index, "").location,
                               "Closing parenthesis must close a commands arguments")
    /\ (EndsParse /\ parser.command_stack # << >>) =>
           /\ pc' = "done"
           /\ reply' = Failure(SyntaxError(tokens, InnermostUnclosed, "").location,
                               "Missing closing parenthesis within command **"
                                   \o Name(tokens[InnermostUnclosed].value) \o "**")
    /\ (EndsParse /\ pc' = "eval") =>
           /\ parser.command_stack = << >>
           /\ OpenDepth(1, Len(tokens)) = 0

\* C19: parse returns Ok only when every frame it pushed was closed; the
\* end of the input with frames left is a syntax error that names the
\* innermost unclosed command, a ')' on an empty stack is a syntax error,
\* and at every step the depth of the stack is the number of Command tokens
\* less the number of ClosingParenthesis tokens read so far.
C19_StackClosedOrSyntaxError == []StackIsOpenDepth /\ [][FramesClosed]_pipeline

\* the end of add(1,sub(2 was reached with two frames open, and the error
\* names sub
C19_Witness ==
    /\ pc = "done"
    /\ evaluated = <<S("add(1,sub(2")>>
    /\ Len(parser.command_stack) = 2
    /\ reply.error.description = "Missing closing parenthesis within command **sub**"

\* a comma of the tokens that stands outside every open command
CommaOutsideCommand(j) == tokens[j].token_type = "Comma" /\ OpenDepth(1, j) < 1

\* a comma of the tokens that comes right after an opening parenthesis
CommaAfterOpeningParenthesis(j) ==
    tokens[j].token_type = "Comma" /\ j > 1 /\ tokens[j - 1].token_type = "OpeningParenthesis"

\* C20: parse rejects every comma outside any open command and every comma
\* that immediately follows an opening parenthesis: code with such a comma,
\* add(,1,2) for one, is never parsed into commands.
C20_LeadingCommaRejected ==
    Parsed => \A j \in DOMAIN tokens :
                  ~CommaOutsideCommand(j) /\ ~CommaAfterOpeningParenthesis(j)

RECURSIVE QuotedRegions(_, _, _, _)
\* the contents of the terminated quoted regions of the code, one after
\* the other: a region runs from a quote to the next quote that no
\* backslash escapes, and its content keeps every character but the
\* backslash of an escaped quote
QuotedRegions(code, inside, content, regions) ==
    IF code = << >> THEN regions
    ELSE IF ~inside
    THEN QuotedRegions(Tail(code), Head(code) = QUOTE, << >>, regions)
    ELSE IF Head(code) = ESCAPE /\ Len(code) >= 2 /\ code[2] = QUOTE
    THEN QuotedRegions(Tail(Tail(code)), TRUE, Append(content, QUOTE), regions)
    ELSE IF Head(code) = QUOTE
    THEN QuotedRegions(Tail(code), FALSE, << >>, Append(regions, content))
    ELSE QuotedRegions(Tail(code), TRUE, Append(content, Head(code)), regions)

\* the Text tokens, in order
TextTokens == SelectSeq(tokens, LAMBDA token : token.token_type = "Text")

\* the code the tokens were made from
Tokenized == evaluated[Len(evaluated)]

\* C21: for every terminated quoted region tokenize emits exactly
\* OpeningQuote, one Text token, ClosingQuote; the value of the Text is the
\* content of the region with each escaped quote replaced by a quote and
\* every other character kept, in order (commas, parentheses and the
\* backslashes that escape no quote too); the characters of the region
\* give no structural tokens.
C21_QuotedRegionIsOneText ==
    evaluated # << >> =>
        /\ [i \in DOMAIN TextTokens |-> TextTokens[i].value]
               = QuotedRegions(Tokenized, FALSE, << >>, << >>)
        /\ \A i \in DOMAIN tokens :
               /\ tokens[i].token_type = "Text" =>
                      /\ i > 1 /\ tokens[i - 1].token_type = "OpeningQuote"
                      /\ i < Len(tokens) /\ tokens[i + 1].token_type = "ClosingQuote"
               /\ tokens[i].token_type = "ClosingQuote" => tokens[i - 1].token_type = "Text"
               /\ (tokens[i].token_type = "OpeningQuote" /\ i < Len(tokens))
                      => tokens[i + 1].token_type = "Text"

\* ---------------------------------------------------------------------
RECURSIVE CopyTargets(_)
\* the names a statement's Copy commands store to
CopyTargets(command) ==
    (IF command.command_type = "Copy" /\ Len(command.args) >= 2
        /\ command.args[Len(command.args)].k = "Identifier"
     THEN {TargetOf(command)} ELSE {})
    \cup UNION {CopyTargets(command.args[i].v) :
                    i \in {j \in 1..Len(command.args) : command.args[j].k = "Command"}}

\* the step being taken evaluates the next statement of a block
StepsStatement == Stepping /\ commands' # commands

\* copy(v, x) of a value written in the code
CopyOfLiteral(command) ==
    /\ command.command_type = "Copy"
    /\ Len(command.args) = 2
    /\ command.args[2].k = "Identifier"
    /\ command.args[1].k \in {"Text", "Int", "Float", "Bool"}

\* print(paste(x))
PrintOfPaste(command) ==
    /\ command.command_type = "Print"
    /\ Len(command.args) = 1
    /\ command.args[1].k = "Command"
    /\ command.args[1].v.command_type = "Paste"
    /\ Len(command.args[1].v.args) = 1
    /\ command.args[1].v.args[1].k = "Identifier"

PastedName(command) == command.args[1].v.args[1].v

UnknownIdentifier(name) == ERROR_UNKNOWN_IDENTIFIER \o " **" \o name \o "**"

\* a step of the pipeline call keeps what paste returns for every name
\* but those a Copy of the statement it evaluates stores to
StoreKept ==
    \A x \in DOMAIN vars.data :
        ~(StepsStatement /\ x \in CopyTargets(Head(commands)))
            => PasteFrom(vars', x) = [kind |-> "ok", val |-> vars.data[x], desc |-> ""]

\* a successful copy(v, x) makes paste(x) return v
CopyStores ==
    (StepsStatement /\ CopyOfLiteral(Head(commands)) /\ result'.kind = "ok")
        => PasteFrom(vars', TargetOf(Head(commands)))
               = [kind |-> "ok", val |-> Head(commands).args[1], desc |-> ""]

\* paste(x) returns the stored value, or the error naming x with nothing
\* changed
PasteReturns ==
    (StepsStatement /\ PrintOfPaste(Head(commands)))
        => LET x == PastedName(Head(commands))
           IN  IF x \in DOMAIN vars.data
               THEN /\ result'.kind = "ok"
                    /\ Chars(output') = Chars(output) \o Chars(to_string(vars.data[x]))
               ELSE /\ result'.kind = "err"
                    /\ result'.cmd = "paste"
                    /\ result'.desc = UnknownIdentifier(x)
                    /\ vars' = vars
                    /\ output' = output

\* C22: after copy(v, x) succeeds, paste(x) returns exactly v in every
\* later statement of the same pipeline call, statements of code blocks
\* closed later included, until another successful copy to x replaces it;
\* paste of a name never stored returns an error naming that identifier
\* and changes nothing.
C22_PasteReturnsLastCopy == [][StoreKept /\ CopyStores /\ PasteReturns]_pipeline

\* print(paste(x)) in a later block has printed the "b" that the second
\* copy to x stored over the 1 of the first, and print(paste(y)) of the
\* never stored y has failed
C22_Witness ==
    /\ Len(evaluated) = 2
    /\ Stepped
    /\ PrintOfPaste(stmt)
    /\ PastedName(stmt) = "y"
    /\ result.kind = "err"
    /\ result.desc = UnknownIdentifier("y")
    /\ "x" \in DOMAIN vars.data
    /\ vars.data["x"] = TextV(Str(<<"b">>))
    /\ Chars(output) = <<"b">>

\* ---------------------------------------------------------------------
\* the While of EndlessWhile: its condition eq(1, 1) is never false
EndlessStmt(command) ==
    /\ command.command_type = "While"
    /\ Len(command.args) >= 2
    /\ command.args[1] = Cv("Eq", <<I(1), I(1)>>)

\* the runs of the body so far, where the body counts them in i
BodyRuns == IF "i" \in DOMAIN vars.data THEN vars.data["i"].v ELSE 0

LookupsOfThePass == interpolation.s.lookups

\* the unlock entries of the trace: the releases of GetSub
Releases == {i \in DOMAIN trace : trace[i].ev = "unlock"}

\* C24: every acquisition of the lock of the substitution source covers
\* exactly one get_random_subs lookup and is released right after it, in
\* the standalone pass of interp_input and in GetSub alike.
C24_LockCoversOneLookup ==
    /\ pc = "drop" => (lock = "interp_input" /\ LookupsOfThePass = 1)
    /\ \A i \in Releases : trace[i].val = IntV(1)

\* ---------------------------------------------------------------------
\* a Repeat with a count written in the code that is no non-negative Int
\* up to LOOP_LIMIT, or with a body argument that is no Command
InvalidRepeat(command) ==
    /\ command.command_type = "Repeat"
    /\ Len(command.args) >= 2
    /\ command.args[1].k # "Command"
    /\ \/ command.args[1].k # "Int"
       \/ command.args[1].v < 0
       \/ command.args[1].v > LOOP_LIMIT
       \/ \E j \in 2..Len(command.args) : command.args[j].k # "Command"

RepeatRules ==
    {ERROR_REPEAT_LIMIT, ERROR_ARG_ONE_MUST_BE_WHOLE_NUMBER,
     ERROR_ARGS_AFTER_ARG_ONE_MUST_BE_COMMAND}

\* C25: Repeat validates its arguments before acting: with a count that is
\* no non-negative Int up to the loop ceiling, or a body argument that is
\* no Command, it returns a semantic error naming repeat and the rule, and
\* no body command has been evaluated: the output and the variable store
\* are as they were.
C25_RepeatValidatesBeforeActing ==
    [][(StepsStatement /\ InvalidRepeat(Head(commands)))
       => /\ result'.kind = "err"
          /\ result'.cmd = "repeat"
          /\ result'.desc \in RepeatRules
          /\ output' = output
          /\ vars' = vars]_pipeline

\* ---------------------------------------------------------------------
\* the commands that address a position of a text or list
PositionCommands == {"Index", "Slice", "Swap", "Insert", "Remove", "Replace"}

\* the text or list a statement of BoundsPrograms works on: the text
\* written in the code, or the stored list it pastes
Addressed(command) ==
    LET x == command.args[Len(command.args)]
    IN  IF x.k = "Text" THEN x ELSE vars.data[x.v.args[1].v]

LengthOf(value) == IF value.k = "Text" THEN TextLen(value.v) ELSE Len(value.v)

\* the statement addresses no valid position of its text or list
InvalidPosition(command) ==
    LET len == LengthOf(Addressed(command))
        valid == 0..(len - 1)
    IN  CASE command.command_type \in {"Index", "Remove"} -> command.args[1].v \notin valid
          [] command.command_type = "Replace" -> command.args[2].v \notin valid
          [] command.command_type = "Insert" -> command.args[2].v > len
          [] command.command_type = "Swap" ->
                 command.args[1].v \notin valid \/ command.args[2].v \notin valid
          [] command.command_type = "Slice" ->
                 command.args[2].v > len \/ ~(command.args[1].v < command.args[2].v)

PositionErrors == {"index out of bounds", "first argument must be less than second argument"}

\* C26: Index, Slice, Swap, Insert, Remove and Replace with an Int index
\* that addresses no valid position of the text or list return the
\* out-of-bounds or invalid-range error and never end the evaluation with
\* a crash.
C26_InvalidPositionIsError ==
    (Stepped /\ stmt.command_type \in PositionCommands /\ InvalidPosition(stmt))
        => /\ result.kind = "err"
           /\ result.cmd = to_str(stmt.command_type)
           /\ result.desc \in PositionErrors

\* ---------------------------------------------------------------------
\* print(paste(x)) or concatenate(paste(x))
StringOfPaste(command) ==
    /\ command.command_type \in {"Print", "Concatenate"}
    /\ Len(command.args) = 1
    /\ command.args[1].k = "Command"
    /\ command.args[1].v.command_type = "Paste"
    /\ Len(command.args[1].v.args) = 1
    /\ command.args[1].v.args[1].k = "Identifier"

RECURSIVE ListText(_)
RECURSIVE JoinedText(_)
\* the stringified elements joined by ", "
JoinedText(values) ==
    IF values = << >> THEN << >>
    ELSE (IF Head(values).k = "List" THEN ListText(Head(values).v)
          ELSE Chars(to_string(Head(values))))
         \o (IF Len(values) = 1 THEN << >> ELSE <<",", " ">> \o JoinedText(Tail(values)))

\* a List as text: its elements joined by ", " inside square brackets
ListText(values) == <<"[">> \o JoinedText(values) \o <<"]">>

\* the stored List a statement pastes
PastedList(command) == vars.data[PastedName(command)].v

\* C27: stringification is total: Print and Concatenate of every stored
\* List, the empty list left by Remove included, obtain a string without
\* failing, the List rendering as its stringified elements joined by ", "
\* inside square brackets.
C27_ListStringificationIsTotal ==
    [][(/\ StepsStatement
        /\ StringOfPaste(Head(commands))
        /\ PastedName(Head(commands)) \in DOMAIN vars.data
        /\ vars.data[PastedName(Head(commands))].k = "List")
       => /\ result'.kind = "ok"
          /\ IF Head(commands).command_type = "Print"
             THEN Chars(output') = Chars(output) \o ListText(PastedList(Head(commands)))
             ELSE /\ result'.val.k = "Text"
                  /\ Chars(result'.val.v) = ListText(PastedList(Head(commands)))]_pipeline

\* ---------------------------------------------------------------------
\* interpret_embedded_code is running and has returned no error
Scanning == pc \in {"scan", "parse", "eval"}

\* C28: at every step of interpret_embedded_code that has not returned an
\* error, code_depth is the number of buffers on code_stack: a '}' that is
\* accepted finds a buffer to pop and a character read at depth 1 or more
\* finds a top buffer, so the two `None => {}` branches are never taken.
C28_DepthIsStackHeight ==
    /\ [](Scanning => code_depth = Len(code_stack))
    /\ [][(pc = "scan" /\ rest # << >> /\ rest' = Tail(rest))
           => /\ (Head(rest) = "}" /\ code_depth >= 1) => code_stack # << >>
              /\ (Head(rest) \notin {"{", "}"} /\ code_depth # 0) => code_stack # << >>]_pipeline

\* the '}' of an inner block has been accepted with the outer block open:
\* one buffer is left on the stack at depth 1
C28_Witness ==
    /\ pc = "parse"
    /\ code_depth = 1
    /\ Len(code_stack) = 1
    /\ code_stack[1] # << >>
    /\ Len(evaluated) = 1

\* ---------------------------------------------------------------------
\* interpret has returned Ok for the block closed last
BlockReturned == pc = "eval" /\ status = "idle"

\* interpret is about to evaluate the first statement of a block
BlockStarts == pc = "eval" /\ status = "running" /\ ~Stepped

RECURSIVE EmittedByAll(_)
\* what the statements of a block print, the first statement first
EmittedByAll(statements) ==
    IF statements = << >> THEN EmptyText
    ELSE TextCat(Emitted(Head(statements)), EmittedByAll(Tail(statements)))

\* the statements of the block print text written in the code and do
\* nothing else
PrintsOnly(statements) == \A i \in DOMAIN statements : TextOnly(statements[i])

\* the step by which interpret returns Ok
Drains == pc = "eval" /\ status = "running" /\ commands = << >> /\ status' = "idle"

\* C30: every successful interpret call drains the output accumulator into
\* the string it returns and leaves it empty, so within one
\* interpret_embedded_code call the text spliced for a block is exactly
\* what the evaluation of that block printed, in the order of the prints,
\* with none of the text printed by a block evaluated before it.
C30_BlockResultIsItsOwnOutput ==
    /\ [](BlockReturned => output = EmptyText)
    /\ [](BlockStarts => output = EmptyText)
    /\ []((BlockReturned /\ PrintsOnly(parser.commands))
              => returned = EmittedByAll(parser.commands))
    /\ [][Drains => returned' = output]_pipeline

\* the second block has returned its own "c" after the first block
\* returned "ab"
C30_Witness ==
    /\ BlockReturned
    /\ Len(evaluated) = 2
    /\ PrintsOnly(parser.commands)
    /\ embedded_output = S("ab")
    /\ returned = Str(<<"c">>)

\* ---------------------------------------------------------------------
\* the first request is at a GetSub and waits for, or is about to take,
\* the lock
AtGetSub ==
    /\ pc = "eval"
    /\ status = "running"
    /\ commands # << >>
    /\ Mentions(Head(commands), {"GetSub"})

\* a request asks for the lock only when it does not hold it: the lock of
\* the standalone pass is dropped before the code is evaluated, and the
\* lock of a GetSub before the GetSub returns
NoRequestWhileHolding ==
    /\ pc \in {"lock", "scan", "parse", "eval", "done"} => lock \notin {"interp_input", "get_sub"}
    /\ lock = "interp_input" => pc \in {"interp", "drop"}
    /\ other \in {"lock", "eval", "got", "done"} => lock # "other"
    /\ LockedForTheLookupOnly

\* no request is under way and the lock is free
Settled ==
    /\ pc \in {"idle", "done"}
    /\ other \in {"idle", "done"}
    /\ adding \in {"idle", "done"}
    /\ lock = "free"

\* C29: the pipeline cannot deadlock on the mutex of the substitution
\* source: a request never asks for the lock while it holds it, and with
\* two interp_input requests and an add_subs request under a fair
\* scheduler every acquisition is followed by a release, every request of
\* the lock is granted and every request made returns: whatever is under
\* way, a state with every request made returned and the lock free comes.
C29_NoDeadlockOnTheLock == []NoRequestWhileHolding /\ []<>Settled

\* the first request is at a GetSub while the second holds the lock for
\* its standalone pass
C29_Witness ==
    /\ AtGetSub
    /\ has_db
    /\ lock = "other"
    /\ other = "interp"

====
